---------------------------- MODULE Spec2Model ----------------------------
(***************************************************************************)
(* Model of seclai-go's streaming wait operation,                          *)
(* Client.RunStreamingAgentAndWait (client.go), and of the error values    *)
(* it returns (errors.go).  Spec and FairSpec are the whole call, with     *)
(* its deadlines; StreamSpec is its read loop on longer records, ConcSpec  *)
(* two such loops side by side, LineSpec the loop on lines that end in LF  *)
(* or CR LF with a last line that may be cut off, CrlfSpec the loop on     *)
(* CR LF lines only, FieldSpec the loop on lines built from field names,   *)
(* separators and values; DoSpec is Client.Do, ConfigSpec is NewClient,    *)
(* and TaxonomySpec is a streaming call, a Do call and an upload that get  *)
(* the same response.  FixSpec is a run of cmd/specfix, the tool that      *)
(* rewrites the OpenAPI document before the client is generated.           *)
(*                                                                         *)
(* Text is a sequence of characters.  A character is a one-element TLA+    *)
(* string; a few multi-character strings ("event", "data", "init", ...)    *)
(* stand for a run of characters none of which is a colon, a space, CR or  *)
(* LF, so that every byte-level operation of the code (TrimRight,          *)
(* HasPrefix, IndexByte, Join, TrimSuffix, TrimSpace) acts on them as on   *)
(* the run they stand for.                                                 *)
(***************************************************************************)
EXTENDS Integers, Sequences, FiniteSets, TLC

\* ------------------------------------------------------------------ bounds

\* The clock reads StartTime when the client has been built.
StartTime == 5
\* A record accumulates at most MaxDataLines data lines.
MaxDataLines == 1

\* ------------------------------------------------------- program constants

\* context.WithTimeout(ctx, 60*time.Second)
DefaultTimeout == 60
\* &http.Client{Timeout: 30 * time.Second}; 0 is a client without a timeout
ClientDefaultTimeout == 30

\* ------------------------------------------------------------- characters

CR == "\r"
LF == "\n"
SP == " "
TAB == "\t"
COLON == ":"

\* unicode.IsSpace on the characters of the model (strings.TrimSpace, and the
\* white space json.Unmarshal skips)
WhiteSpace == {SP, TAB, CR, LF}

\* ------------------------------------------------------- package strings

RECURSIVE TrimRight(_, _)
\* strings.TrimRight(s, cutset): every trailing character of the cutset goes
TrimRight(s, cutset) ==
    IF Len(s) > 0 /\ s[Len(s)] \in cutset
    THEN TrimRight(SubSeq(s, 1, Len(s) - 1), cutset)
    ELSE s

RECURSIVE TrimLeft(_, _)
TrimLeft(s, cutset) ==
    IF Len(s) > 0 /\ s[1] \in cutset THEN TrimLeft(Tail(s), cutset) ELSE s

\* strings.TrimSpace(s)
TrimSpace(s) == TrimLeft(TrimRight(s, WhiteSpace), WhiteSpace)

\* strings.HasPrefix(s, prefix)
HasPrefix(s, prefix) ==
    Len(s) >= Len(prefix) /\ SubSeq(s, 1, Len(prefix)) = prefix

\* strings.HasSuffix(s, suffix)
HasSuffix(s, suffix) ==
    Len(s) >= Len(suffix) /\ SubSeq(s, Len(s) - Len(suffix) + 1, Len(s)) = suffix

\* strings.TrimSuffix(s, suffix): at most one copy of the suffix goes
TrimSuffix(s, suffix) ==
    IF HasSuffix(s, suffix) THEN SubSeq(s, 1, Len(s) - Len(suffix)) ELSE s

\* strings.IndexByte(s, c), 1-based; 0 when c is not in s (Go: -1)
IndexByte(s, c) ==
    IF \E i \in 1..Len(s) : s[i] = c
    THEN CHOOSE i \in 1..Len(s) : s[i] = c /\ \A j \in 1..(i - 1) : s[j] # c
    ELSE 0

RECURSIVE Join(_, _)
\* strings.Join(elems, sep)
Join(elems, sep) ==
    IF Len(elems) = 0 THEN <<>>
    ELSE IF Len(elems) = 1 THEN elems[1]
    ELSE elems[1] \o sep \o Join(Tail(elems), sep)

\* ------------------------------------------------------------ run states

\* A nil *AgentRunResponse.
Nil == "nil"
\* The JSON documents of the model: J1 and J2 are objects that decode to two
\* different run states, J3 is an object that names the run and nothing
\* else.
JsonDocs == {"J1", "J2", "J3"}
\* A run of characters that is not JSON.
Garbage == "oops"

RECURSIVE StripSpace(_)
StripSpace(s) ==
    IF Len(s) = 0 THEN <<>>
    ELSE IF s[1] \in WhiteSpace THEN StripSpace(Tail(s))
    ELSE <<s[1]>> \o StripSpace(Tail(s))

\* json.Unmarshal accepts data: one JSON value, white space around it allowed
Decodable(data) ==
    LET d == StripSpace(data) IN Len(d) = 1 /\ d[1] \in JsonDocs

\* var parsed AgentRunResponse; err := json.Unmarshal([]byte(data), &parsed):
\* parsed stays the zero value when the data is rejected
Unmarshal(data) ==
    LET d == StripSpace(data) IN
    IF ~Decodable(data) THEN [ok |-> FALSE, parsed |-> "zero"]
    ELSE IF d = <<"J1">> THEN [ok |-> TRUE, parsed |-> "run_1:processing"]
    ELSE IF d = <<"J2">> THEN [ok |-> TRUE, parsed |-> "run_1:completed"]
    ELSE [ok |-> TRUE, parsed |-> "run_1:"]

\* ---------------------------------------------------------------- errors

NoErr == [kind |-> "nil"]
\* io.EOF
EOF == [kind |-> "io.EOF"]
\* fmt.Errorf("seclai: stream ended before receiving done event")
StreamEndedErr ==
    [kind |-> "errorString",
     msg |-> "seclai: stream ended before receiving done event"]
\* ctx.Err() once the context's deadline has passed
CtxDeadlineErr == [kind |-> "context.DeadlineExceeded"]
\* net/http's error once http.Client.Timeout has passed
ClientTimeoutErr == [kind |-> "http.timeoutError"]
\* json.Marshal(body) failed
MarshalErr == [kind |-> "json.MarshalError"]
\* What the transport reports otherwise: a reset connection, a failed lookup,
\* or the caller cancelling its context.
TransportErrors ==
    {[kind |-> "net.OpError"], [kind |-> "context.Canceled"]}

\* errors.Is(err, context.DeadlineExceeded): net/http's timeout error answers
\* true as well
IsDeadlineExceeded(e) ==
    e.kind \in {"context.DeadlineExceeded", "http.timeoutError"}

\* Mutant: the upper end of the range is off by one (> 300).
IsNon2xx_UpperOffByOne(code) == code < 200 \/ code > 300

\* resp.StatusCode < 200 || resp.StatusCode >= 300
IsNon2xx(code) == code < 200 \/ code >= 300

\* The JSON documents json.Unmarshal decodes into an HTTPValidationError: VE
\* is {"detail":[{"msg":"bad"}]}, the validation payload of the API; any
\* other JSON object decodes too, its unknown keys being skipped.
ValidationDocs == JsonDocs \cup {"VE"}

\* json.Unmarshal(raw, &ve) == nil for an HTTPValidationError
ValidationDecodable(rawBody) ==
    LET d == StripSpace(rawBody) IN Len(d) = 1 /\ d[1] \in ValidationDocs

\* var ve HTTPValidationError after json.Unmarshal(raw, &ve) accepted raw:
\* the detail of the validation payload, and no detail for another object.
DecodeValidation(rawBody) ==
    IF StripSpace(rawBody) = <<"VE">> THEN "detail:bad" ELSE "detail:none"

\* The error of the non-2xx branch.
StatusError(code, url, rawBody) ==
    LET text == TrimSpace(rawBody)
        statusErr == [kind |-> "APIStatusError", StatusCode |-> code,
                      Method |-> "POST", URL |-> url, ResponseText |-> text]
    IN  IF code = 422
        THEN IF Len(rawBody) > 0 /\ ValidationDecodable(rawBody)
             THEN [kind |-> "APIValidationError", StatusCode |-> code,
                   Method |-> "POST", URL |-> url, ResponseText |-> text,
                   ValidationError |-> DecodeValidation(rawBody)]
             ELSE [kind |-> "APIValidationError", StatusCode |-> code,
                   Method |-> "POST", URL |-> url, ResponseText |-> text,
                   ValidationError |-> Nil]
        ELSE statusErr

\* ------------------------------------------------------------ the request

\* An agent id of unreserved characters only: url.PathEscape, path.Clean and
\* URL.String leave such an id as it is.
AgentIDs == {"agent_1"}

\* c.buildURL(fmt.Sprintf("/api/agents/%s/runs/stream", url.PathEscape(agentID)), nil)
\* on a client whose base URL is DefaultBaseURL
BuildURL(id) == <<"https://seclai.com", "/api/agents/", id, "/runs/stream">>

\* if ctx == nil { ctx = context.Background() }
OrBackground(c) ==
    IF c.isNil THEN [isNil |-> FALSE, ok |-> FALSE, at |-> 0] ELSE c

\* A context's deadline, as ctx.Deadline() reports it: (at, ok).
NoDeadline == [ok |-> FALSE, at |-> 0]
DeadlineAt(t) == [ok |-> TRUE, at |-> t]
Expired(d, t) == d.ok /\ t >= d.at

\* Mutant: the default timeout is layered on a context that has a deadline.
SelectDeadline_AlwaysWraps(c, t) ==
    IF c.ok /\ c.at < t + DefaultTimeout
    THEN DeadlineAt(c.at)
    ELSE DeadlineAt(t + DefaultTimeout)

\* Mutant: no default timeout is applied.
SelectDeadline_NoDefault(c, t) ==
    IF c.ok THEN DeadlineAt(c.at) ELSE NoDeadline

\* if _, ok := ctx.Deadline(); !ok { ctx, cancel = context.WithTimeout(ctx, 60*time.Second) }
\* c is the caller's deadline (none for a nil context: context.Background()),
\* t the time of the call.
SelectDeadline(c, t) ==
    IF c.ok THEN DeadlineAt(c.at) ELSE DeadlineAt(t + DefaultTimeout)

\* ---------------------------------------------------------- the read loop

\* Mutant: the line is split at its last colon.
ParseField_SplitsAtLastColon(l) ==
    LET cs == {k \in 1..Len(l) : l[k] = COLON}
        i == IF cs = {} THEN 0 ELSE CHOOSE k \in cs : \A j \in cs : j <= k
    IN  IF i > 0
        THEN LET v == SubSeq(l, i + 1, Len(l)) IN
             [field |-> SubSeq(l, 1, i - 1),
              value |-> IF HasPrefix(v, <<SP>>) THEN Tail(v) ELSE v]
        ELSE [field |-> l, value |-> <<>>]

\* field := line; value := ""; if i := strings.IndexByte(line, ':'); i >= 0 {...}
ParseField(l) ==
    LET i == IndexByte(l, COLON) IN
    IF i > 0
    THEN LET v == SubSeq(l, i + 1, Len(l)) IN
         [field |-> SubSeq(l, 1, i - 1),
          value |-> IF HasPrefix(v, <<SP>>) THEN Tail(v) ELSE v]
    ELSE [field |-> l, value |-> <<>>]

\* Mutant: every trailing newline of the joined data is removed.
RecordData_TrimsEveryNewline(dl) == TrimRight(Join(dl, <<LF>>), {LF})

\* data := strings.Join(dataLines, "\n"); data = strings.TrimSuffix(data, "\n")
RecordData(dl) == TrimSuffix(Join(dl, <<LF>>), <<LF>>)

\* Mutant: every decoded record completes the call, init included.
Dispatch_AnyEventCompletes(ev, dl, ls) ==
    IF ev = <<>> /\ Len(dl) = 0
    THEN [ret |-> Nil, ok |-> FALSE, currentEvent |-> ev, dataLines |-> dl,
          lastSeen |-> ls]
    ELSE LET data == RecordData(dl)
             u == Unmarshal(data)
         IN  IF data = <<>>
             THEN [ret |-> Nil, ok |-> FALSE, currentEvent |-> <<>>,
                   dataLines |-> <<>>, lastSeen |-> ls]
             ELSE IF ev \in {<<"init">>, <<"done">>} /\ u.ok
             THEN [ret |-> u.parsed, ok |-> TRUE, currentEvent |-> <<>>,
                   dataLines |-> <<>>, lastSeen |-> u.parsed]
             ELSE [ret |-> Nil, ok |-> FALSE, currentEvent |-> <<>>,
                   dataLines |-> <<>>, lastSeen |-> ls]

\* Mutant: the error of json.Unmarshal is not looked at.
Dispatch_IgnoresDecodeError(ev, dl, ls) ==
    IF ev = <<>> /\ Len(dl) = 0
    THEN [ret |-> Nil, ok |-> FALSE, currentEvent |-> ev, dataLines |-> dl,
          lastSeen |-> ls]
    ELSE LET data == RecordData(dl)
             u == Unmarshal(data)
         IN  IF data = <<>>
             THEN [ret |-> Nil, ok |-> FALSE, currentEvent |-> <<>>,
                   dataLines |-> <<>>, lastSeen |-> ls]
             ELSE IF ev \in {<<"init">>, <<"done">>}
             THEN [ret |-> IF ev = <<"done">> THEN u.parsed ELSE Nil,
                   ok |-> ev = <<"done">>, currentEvent |-> <<>>,
                   dataLines |-> <<>>, lastSeen |-> u.parsed]
             ELSE [ret |-> Nil, ok |-> FALSE, currentEvent |-> <<>>,
                   dataLines |-> <<>>, lastSeen |-> ls]

\* Mutant: the event type is not looked at; every record is decoded, and
\* one that is not an init record completes the call.
Dispatch_NoEventFilter(ev, dl, ls) ==
    IF ev = <<>> /\ Len(dl) = 0
    THEN [ret |-> Nil, ok |-> FALSE, currentEvent |-> ev, dataLines |-> dl,
          lastSeen |-> ls]
    ELSE LET data == RecordData(dl)
             u == Unmarshal(data)
         IN  IF data = <<>>
             THEN [ret |-> Nil, ok |-> FALSE, currentEvent |-> <<>>,
                   dataLines |-> <<>>, lastSeen |-> ls]
             ELSE IF u.ok
             THEN [ret |-> IF ev # <<"init">> THEN u.parsed ELSE Nil,
                   ok |-> ev # <<"init">>, currentEvent |-> <<>>,
                   dataLines |-> <<>>, lastSeen |-> u.parsed]
             ELSE [ret |-> Nil, ok |-> FALSE, currentEvent |-> <<>>,
                   dataLines |-> <<>>, lastSeen |-> ls]

\* Mutant: a done record completes the call whether its data decoded or not.
Dispatch_MalformedDoneCompletes(ev, dl, ls) ==
    IF ev = <<>> /\ Len(dl) = 0
    THEN [ret |-> Nil, ok |-> FALSE, currentEvent |-> ev, dataLines |-> dl,
          lastSeen |-> ls]
    ELSE LET data == RecordData(dl)
             u == Unmarshal(data)
         IN  IF data = <<>>
             THEN [ret |-> Nil, ok |-> FALSE, currentEvent |-> <<>>,
                   dataLines |-> <<>>, lastSeen |-> ls]
             ELSE IF ev \in {<<"init">>, <<"done">>}
             THEN [ret |-> IF ev = <<"done">> THEN u.parsed ELSE Nil,
                   ok |-> ev = <<"done">>, currentEvent |-> <<>>,
                   dataLines |-> <<>>,
                   lastSeen |-> IF u.ok THEN u.parsed ELSE ls]
             ELSE [ret |-> Nil, ok |-> FALSE, currentEvent |-> <<>>,
                   dataLines |-> <<>>, lastSeen |-> ls]

\* Mutant: the data is decoded into the last-known state when there is one,
\* not into a fresh value, so a field the document does not name keeps what
\* an earlier record had put there.
Dispatch_MergesIntoLastSeen(ev, dl, ls) ==
    IF ev = <<>> /\ Len(dl) = 0
    THEN [ret |-> Nil, ok |-> FALSE, currentEvent |-> ev, dataLines |-> dl,
          lastSeen |-> ls]
    ELSE LET data == RecordData(dl)
             u == Unmarshal(data)
             merged == IF u.parsed = "run_1:" /\ ls # Nil THEN ls ELSE u.parsed
         IN  IF data = <<>>
             THEN [ret |-> Nil, ok |-> FALSE, currentEvent |-> <<>>,
                   dataLines |-> <<>>, lastSeen |-> ls]
             ELSE IF ev \in {<<"init">>, <<"done">>} /\ u.ok
             THEN [ret |-> IF ev = <<"done">> THEN merged ELSE Nil,
                   ok |-> ev = <<"done">>, currentEvent |-> <<>>,
                   dataLines |-> <<>>, lastSeen |-> merged]
             ELSE [ret |-> Nil, ok |-> FALSE, currentEvent |-> <<>>,
                   dataLines |-> <<>>, lastSeen |-> ls]

\* Mutant: the accumulator is reset only when the record was decoded; a
\* record that is dropped or ignored stays accumulated.
Dispatch_KeepsDroppedRecord(ev, dl, ls) ==
    IF ev = <<>> /\ Len(dl) = 0
    THEN [ret |-> Nil, ok |-> FALSE, currentEvent |-> ev, dataLines |-> dl,
          lastSeen |-> ls]
    ELSE LET data == RecordData(dl)
             u == Unmarshal(data)
         IN  IF data = <<>>
             THEN [ret |-> Nil, ok |-> FALSE, currentEvent |-> ev,
                   dataLines |-> dl, lastSeen |-> ls]
             ELSE IF ev \in {<<"init">>, <<"done">>} /\ u.ok
             THEN [ret |-> IF ev = <<"done">> THEN u.parsed ELSE Nil,
                   ok |-> ev = <<"done">>, currentEvent |-> <<>>,
                   dataLines |-> <<>>, lastSeen |-> u.parsed]
             ELSE [ret |-> Nil, ok |-> FALSE, currentEvent |-> ev,
                   dataLines |-> dl, lastSeen |-> ls]

\* Mutant: a done record without data completes the call with the
\* last-known state.
Dispatch_EmptyDoneCompletes(ev, dl, ls) ==
    IF ev = <<>> /\ Len(dl) = 0
    THEN [ret |-> Nil, ok |-> FALSE, currentEvent |-> ev, dataLines |-> dl,
          lastSeen |-> ls]
    ELSE LET data == RecordData(dl)
             u == Unmarshal(data)
         IN  IF data = <<>>
             THEN [ret |-> IF ev = <<"done">> THEN ls ELSE Nil,
                   ok |-> ev = <<"done">>, currentEvent |-> <<>>,
                   dataLines |-> <<>>, lastSeen |-> ls]
             ELSE IF ev \in {<<"init">>, <<"done">>} /\ u.ok
             THEN [ret |-> IF ev = <<"done">> THEN u.parsed ELSE Nil,
                   ok |-> ev = <<"done">>, currentEvent |-> <<>>,
                   dataLines |-> <<>>, lastSeen |-> u.parsed]
             ELSE [ret |-> Nil, ok |-> FALSE, currentEvent |-> <<>>,
                   dataLines |-> <<>>, lastSeen |-> ls]

\* The dispatch closure: what it returns (ret, ok) and the locals it leaves.
Dispatch(ev, dl, ls) ==
    IF ev = <<>> /\ Len(dl) = 0
    THEN [ret |-> Nil, ok |-> FALSE, currentEvent |-> ev, dataLines |-> dl,
          lastSeen |-> ls]
    ELSE LET data == RecordData(dl)
             u == Unmarshal(data)
         IN  IF data = <<>>
             THEN [ret |-> Nil, ok |-> FALSE, currentEvent |-> <<>>,
                   dataLines |-> <<>>, lastSeen |-> ls]
             ELSE IF ev \in {<<"init">>, <<"done">>} /\ u.ok
             THEN [ret |-> IF ev = <<"done">> THEN u.parsed ELSE Nil,
                   ok |-> ev = <<"done">>, currentEvent |-> <<>>,
                   dataLines |-> <<>>, lastSeen |-> u.parsed]
             ELSE [ret |-> Nil, ok |-> FALSE, currentEvent |-> <<>>,
                   dataLines |-> <<>>, lastSeen |-> ls]

\* Mutant: a comment line ends the record like a blank line does.
LoopBody_CommentIsBoundary(ln, ev, dl, ls) ==
    LET l == TrimRight(ln, {CR, LF}) IN
    IF l = <<>> \/ HasPrefix(l, <<COLON>>)
    THEN LET d == Dispatch(ev, dl, ls) IN
         [currentEvent |-> d.currentEvent, dataLines |-> d.dataLines,
          lastSeen |-> d.lastSeen, returns |-> d.ok, ret |-> d.ret]
    ELSE LET f == ParseField(l) IN
         [currentEvent |-> IF f.field = <<"event">> THEN f.value ELSE ev,
          dataLines |-> IF f.field = <<"data">> THEN Append(dl, f.value) ELSE dl,
          lastSeen |-> ls, returns |-> FALSE, ret |-> Nil]

\* Mutant: a blank line dispatches the record but the loop reads on after a
\* done record; the state is returned when the stream ends.
LoopBody_ReadsOnAfterDone(ln, ev, dl, ls) ==
    LET l == TrimRight(ln, {CR, LF}) IN
    IF l = <<>>
    THEN LET d == Dispatch(ev, dl, ls) IN
         [currentEvent |-> d.currentEvent, dataLines |-> d.dataLines,
          lastSeen |-> d.lastSeen, returns |-> FALSE, ret |-> Nil]
    ELSE IF HasPrefix(l, <<COLON>>)
    THEN [currentEvent |-> ev, dataLines |-> dl, lastSeen |-> ls,
          returns |-> FALSE, ret |-> Nil]
    ELSE LET f == ParseField(l) IN
         [currentEvent |-> IF f.field = <<"event">> THEN f.value ELSE ev,
          dataLines |-> IF f.field = <<"data">> THEN Append(dl, f.value) ELSE dl,
          lastSeen |-> ls, returns |-> FALSE, ret |-> Nil]

\* Mutant: only the newline is trimmed from the line; a carriage return
\* before it stays.
LoopBody_TrimsOnlyLF(ln, ev, dl, ls) ==
    LET l == TrimRight(ln, {LF}) IN
    IF l = <<>>
    THEN LET d == Dispatch(ev, dl, ls) IN
         [currentEvent |-> d.currentEvent, dataLines |-> d.dataLines,
          lastSeen |-> d.lastSeen, returns |-> d.ok, ret |-> d.ret]
    ELSE IF HasPrefix(l, <<COLON>>)
    THEN [currentEvent |-> ev, dataLines |-> dl, lastSeen |-> ls,
          returns |-> FALSE, ret |-> Nil]
    ELSE LET f == ParseField(l) IN
         [currentEvent |-> IF f.field = <<"event">> THEN f.value ELSE ev,
          dataLines |-> IF f.field = <<"data">> THEN Append(dl, f.value) ELSE dl,
          lastSeen |-> ls, returns |-> FALSE, ret |-> Nil]

\* One turn of the loop on a line ReadString returned without error: the
\* locals afterwards, and whether the function returns (with ret, nil).
LoopBody(ln, ev, dl, ls) ==
    LET l == TrimRight(ln, {CR, LF}) IN
    IF l = <<>>
    THEN LET d == Dispatch(ev, dl, ls) IN
         [currentEvent |-> d.currentEvent, dataLines |-> d.dataLines,
          lastSeen |-> d.lastSeen, returns |-> d.ok, ret |-> d.ret]
    ELSE IF HasPrefix(l, <<COLON>>)
    THEN [currentEvent |-> ev, dataLines |-> dl, lastSeen |-> ls,
          returns |-> FALSE, ret |-> Nil]
    ELSE LET f == ParseField(l) IN
         [currentEvent |-> IF f.field = <<"event">> THEN f.value ELSE ev,
          dataLines |-> IF f.field = <<"data">> THEN Append(dl, f.value) ELSE dl,
          lastSeen |-> ls, returns |-> FALSE, ret |-> Nil]

\* Mutant: at EOF without done the stream-ended error is returned, whatever
\* state was seen.
OnReadError_NoFallback(e, ev, dl, ls) ==
    IF e = EOF
    THEN LET d == Dispatch(ev, dl, ls) IN
         [currentEvent |-> d.currentEvent, dataLines |-> d.dataLines,
          lastSeen |-> d.lastSeen,
          result |-> IF d.ok THEN d.ret ELSE Nil,
          err |-> IF d.ok THEN NoErr ELSE StreamEndedErr]
    ELSE [currentEvent |-> ev, dataLines |-> dl, lastSeen |-> ls,
          result |-> Nil, err |-> e]

\* Mutant: the record accumulated at EOF is not dispatched.
OnReadError_SkipFinalDispatch(e, ev, dl, ls) ==
    IF e = EOF
    THEN [currentEvent |-> ev, dataLines |-> dl, lastSeen |-> ls,
          result |-> ls,
          err |-> IF ls # Nil THEN NoErr ELSE StreamEndedErr]
    ELSE [currentEvent |-> ev, dataLines |-> dl, lastSeen |-> ls,
          result |-> Nil, err |-> e]

\* Mutant: every read error is taken for the end of the stream.
OnReadError_AllAsEOF(e, ev, dl, ls) ==
    LET d == Dispatch(ev, dl, ls) IN
    [currentEvent |-> d.currentEvent, dataLines |-> d.dataLines,
     lastSeen |-> d.lastSeen,
     result |-> IF d.ok THEN d.ret ELSE d.lastSeen,
     err |-> IF d.ok \/ d.lastSeen # Nil THEN NoErr ELSE StreamEndedErr]

\* Mutant: a read error falls back to the last-known state like EOF does.
OnReadError_FallbackOnError(e, ev, dl, ls) ==
    IF e = EOF
    THEN LET d == Dispatch(ev, dl, ls) IN
         [currentEvent |-> d.currentEvent, dataLines |-> d.dataLines,
          lastSeen |-> d.lastSeen,
          result |-> IF d.ok THEN d.ret ELSE d.lastSeen,
          err |-> IF d.ok \/ d.lastSeen # Nil THEN NoErr ELSE StreamEndedErr]
    ELSE [currentEvent |-> ev, dataLines |-> dl, lastSeen |-> ls,
          result |-> ls, err |-> IF ls # Nil THEN NoErr ELSE e]

\* Mutant: every read error other than io.EOF is reported as a timeout.
OnReadError_ReportsTimeout(e, ev, dl, ls) ==
    IF e = EOF
    THEN LET d == Dispatch(ev, dl, ls) IN
         [currentEvent |-> d.currentEvent, dataLines |-> d.dataLines,
          lastSeen |-> d.lastSeen,
          result |-> IF d.ok THEN d.ret ELSE d.lastSeen,
          err |-> IF d.ok \/ d.lastSeen # Nil THEN NoErr ELSE StreamEndedErr]
    ELSE [currentEvent |-> ev, dataLines |-> dl, lastSeen |-> ls,
          result |-> Nil, err |-> CtxDeadlineErr]

\* Mutant: at EOF the result is chosen before the accumulated record is
\* dispatched.
OnReadError_StaleResult(e, ev, dl, ls) ==
    IF e = EOF
    THEN LET d == Dispatch(ev, dl, ls) IN
         [currentEvent |-> d.currentEvent, dataLines |-> d.dataLines,
          lastSeen |-> d.lastSeen,
          result |-> ls,
          err |-> IF ls # Nil THEN NoErr ELSE StreamEndedErr]
    ELSE [currentEvent |-> ev, dataLines |-> dl, lastSeen |-> ls,
          result |-> Nil, err |-> e]

\* Mutant: a read error is returned together with the last state seen.
OnReadError_ResultWithError(e, ev, dl, ls) ==
    IF e = EOF
    THEN LET d == Dispatch(ev, dl, ls) IN
         [currentEvent |-> d.currentEvent, dataLines |-> d.dataLines,
          lastSeen |-> d.lastSeen,
          result |-> IF d.ok THEN d.ret ELSE d.lastSeen,
          err |-> IF d.ok \/ d.lastSeen # Nil THEN NoErr ELSE StreamEndedErr]
    ELSE [currentEvent |-> ev, dataLines |-> dl, lastSeen |-> ls,
          result |-> ls, err |-> e]

\* The branch taken when ReadString returned an error e: the locals
\* afterwards and what the function returns.
OnReadError(e, ev, dl, ls) ==
    IF e = EOF
    THEN LET d == Dispatch(ev, dl, ls) IN
         [currentEvent |-> d.currentEvent, dataLines |-> d.dataLines,
          lastSeen |-> d.lastSeen,
          result |-> IF d.ok THEN d.ret ELSE d.lastSeen,
          err |-> IF d.ok \/ d.lastSeen # Nil THEN NoErr ELSE StreamEndedErr]
    ELSE [currentEvent |-> ev, dataLines |-> dl, lastSeen |-> ls,
          result |-> Nil, err |-> e]

\* Mutant: what ReadString returns together with io.EOF, the last line cut
\* off before its newline, is parsed like a line before the final dispatch.
LoopTurn_ParsesTail(ln, e, ev, dl, ls) ==
    IF e = EOF
    THEN LET b == LoopBody(ln, ev, dl, ls)
             cut == TrimRight(ln, {CR, LF}) # <<>>
             r == IF cut
                  THEN OnReadError(e, b.currentEvent, b.dataLines, b.lastSeen)
                  ELSE OnReadError(e, ev, dl, ls)
         IN  [currentEvent |-> r.currentEvent, dataLines |-> r.dataLines,
              lastSeen |-> r.lastSeen, returns |-> TRUE,
              result |-> r.result, err |-> r.err]
    ELSE IF e # NoErr
    THEN LET r == OnReadError(e, ev, dl, ls) IN
         [currentEvent |-> r.currentEvent, dataLines |-> r.dataLines,
          lastSeen |-> r.lastSeen, returns |-> TRUE,
          result |-> r.result, err |-> r.err]
    ELSE LET r == LoopBody(ln, ev, dl, ls) IN
         [currentEvent |-> r.currentEvent, dataLines |-> r.dataLines,
          lastSeen |-> r.lastSeen, returns |-> r.returns,
          result |-> r.ret, err |-> NoErr]

\* One turn of the loop, line, err := reader.ReadString('\n'): with an error
\* the branch of the error is taken and line, which holds what was read of
\* an unfinished line, is not looked at; without one the loop body runs on
\* line.
LoopTurn(ln, e, ev, dl, ls) ==
    IF e # NoErr
    THEN LET r == OnReadError(e, ev, dl, ls) IN
         [currentEvent |-> r.currentEvent, dataLines |-> r.dataLines,
          lastSeen |-> r.lastSeen, returns |-> TRUE,
          result |-> r.result, err |-> r.err]
    ELSE LET r == LoopBody(ln, ev, dl, ls) IN
         [currentEvent |-> r.currentEvent, dataLines |-> r.dataLines,
          lastSeen |-> r.lastSeen, returns |-> r.returns,
          result |-> r.ret, err |-> NoErr]

\* ------------------------------------------------------------ the inputs

\* The timeouts of the caller's contexts that carry a deadline: one shorter
\* and one longer than the default.
ShortTimeout == 10
LongTimeout == 80

\* The contexts a caller passes at time t: nil, one without a deadline, and
\* one with a deadline for each timeout.
CallerCtxs(t) ==
    {[isNil |-> TRUE, ok |-> FALSE, at |-> 0],
     [isNil |-> FALSE, ok |-> FALSE, at |-> 0]}
    \cup {[isNil |-> FALSE, ok |-> TRUE, at |-> t + d] :
            d \in {ShortTimeout, LongTimeout}}

\* Status codes of the response: 200, its two nearest codes outside 200..299
\* on either side, and 422.
StatusCodes == {199, 200, 300, 422}

\* Response bodies of a non-2xx response: empty, a message with white space
\* around it, a JSON document, and a well-formed done record.
Bodies ==
    {<<>>,
     <<SP, "not", SP, "found", LF>>,
     <<"J1">>,
     <<"event", COLON, SP, "done", LF, "data", COLON, SP, "J2", LF, LF>>}

\* The lines of a stream, without their terminator.
LineTexts ==
    {<<>>,
     <<COLON, SP, "keepalive">>,
     <<"event", COLON, SP, "init">>,
     <<"event", COLON, SP, "done">>,
     <<"event", COLON, "ping">>,
     <<"event">>,
     <<"data", COLON, SP, "J1">>,
     <<"data", COLON, SP, "J2">>,
     <<"data", COLON, SP, Garbage>>,
     <<"data">>,
     <<"id", COLON, SP, "7">>}

\* The lines that also come with CR LF at their end.
CRLFTexts ==
    {<<>>, <<"event", COLON, SP, "done">>, <<"data", COLON, SP, "J2">>}

\* The lines ReadString returns without error: text, then LF or CR LF.
Lines ==
    {t \o <<LF>> : t \in LineTexts} \cup {t \o <<CR, LF>> : t \in CRLFTexts}

\* ---------------------------------------------------------------- state

\* No NewClient call, no Do call, no upload and no side-by-side read loop is
\* under way.
NoConfig ==
    [pc |-> "idle", env |-> [SECLAI_API_KEY |-> <<>>, SECLAI_API_URL |-> <<>>]]
NoDo == [pc |-> "idle"]
NoUpload == [pc |-> "idle"]
NoFix == [pc |-> "idle"]
NoFrames == <<>>
NoReturns == <<>>
NoObs == <<>>

VARIABLES
    pc,            \* "idle", "connecting", "readall", "streaming", "returned"
    now,           \* the clock
    clientTimeout, \* c.httpClient.Timeout (0: none)
    callerCtx,     \* the ctx argument
    start,         \* the time of the call
    deadline,      \* the deadline of ctx once lines 228-235 have run
    agentID,       \* the agentID argument
    requests,      \* the number of requests c.httpClient.Do was given
    statusCode,    \* resp.StatusCode (0: no response)
    body,          \* resp.Body: "none", "open", "closed"
    raw,           \* what io.ReadAll read of a non-2xx body
    buffered,      \* the bufio.Reader holds a complete line not yet read
    derr,          \* the err of c.httpClient.Do(req)
    rerr,          \* the err of the last reader.ReadString
    currentEvent,
    dataLines,
    lastSeen,
    result,        \* the *AgentRunResponse returned
    err,           \* the error returned
    \* What the stream held, observed from the records as they reach a
    \* boundary, independently of dispatch:
    initSeen,      \* the state of the latest decodable init record
    doneSeen,      \* the state of the first decodable done record
    badInit,       \* an init record with data that is not JSON was seen
    \* The other operations of the package, each specified on its own below:
    cfg,           \* a NewClient call: its Options, the environment, its results
    do,            \* a Client.Do call
    up,            \* a Client.UploadFileToSource call
    fx,            \* a run of cmd/specfix
    frame,         \* the locals of read loops that run side by side
    ret,           \* what each of these loops has returned
    obs            \* what the streams of these loops held

vars ==
    <<pc, now, clientTimeout, callerCtx, start, deadline, agentID, requests,
      statusCode, body, raw, buffered, derr, rerr, currentEvent, dataLines,
      lastSeen, result, err, initSeen, doneSeen, badInit, cfg, do, up, fx,
      frame, ret, obs>>

clock == <<now>>
client == <<clientTimeout>>
call == <<callerCtx, start, deadline, agentID>>
locals == <<currentEvent, dataLines, lastSeen>>
observed == <<initSeen, doneSeen, badInit>>
\* The state of the operations RunStreamingAgentAndWait takes no part in.
others == <<cfg, do, up, fx, frame, ret, obs>>
\* The state of RunStreamingAgentAndWait.
streaming ==
    <<pc, now, clientTimeout, callerCtx, start, deadline, agentID, requests,
      statusCode, body, raw, buffered, derr, rerr, currentEvent, dataLines,
      lastSeen, result, err, initSeen, doneSeen, badInit>>

\* Mutant: the client's timeout bounds the request up to the response
\* headers only, like http.Transport.ResponseHeaderTimeout.
ClientDeadline_HeadersOnly ==
    IF clientTimeout = 0 \/ pc = "streaming"
    THEN NoDeadline ELSE DeadlineAt(start + clientTimeout)

\* The deadline http.Client.Timeout sets for the request and its body.
ClientDeadline ==
    IF clientTimeout = 0 THEN NoDeadline ELSE DeadlineAt(start + clientTimeout)

\* NewClient has built the client; no call has been made.
Init ==
    /\ pc = "idle"
    /\ now = StartTime
    /\ clientTimeout \in {0, ClientDefaultTimeout}
    /\ callerCtx = [isNil |-> TRUE, ok |-> FALSE, at |-> 0]
    /\ start = 0
    /\ deadline = NoDeadline
    /\ agentID = "agent_1"
    /\ requests = 0
    /\ statusCode = 0
    /\ body = "none"
    /\ raw = <<>>
    /\ buffered = FALSE
    /\ derr = NoErr
    /\ rerr = NoErr
    /\ currentEvent = <<>>
    /\ dataLines = <<>>
    /\ lastSeen = Nil
    /\ result = Nil
    /\ err = NoErr
    /\ initSeen = Nil
    /\ doneSeen = Nil
    /\ badInit = FALSE
    /\ cfg = NoConfig
    /\ do = NoDo
    /\ up = NoUpload
    /\ fx = NoFix
    /\ frame = NoFrames
    /\ ret = NoReturns
    /\ obs = NoObs

\* The deadlines that have not passed yet.
Pending ==
    {d \in {deadline, ClientDeadline} : d.ok /\ d.at > now}

\* Time passes while a call is under way.  The call reads the clock only
\* through its deadlines, so the clock moves from one deadline to the next.
\* A timer fires when its deadline comes: the blocked request or read comes
\* back then, and the lines the reader still holds are consumed in no time,
\* so the clock does not move past a deadline while the call is under way.
Tick ==
    /\ pc \notin {"idle", "returned"}
    /\ Pending # {}
    /\ ~Expired(deadline, now)
    /\ ~Expired(ClientDeadline, now)
    /\ now' = (CHOOSE d \in Pending : \A e \in Pending : d.at <= e.at).at
    /\ UNCHANGED <<client, call, pc, requests, statusCode, body, raw, buffered,
                   derr, rerr, locals, result, err, observed, others>>

\* Mutant: the body is closed only on the path that returns a result.
Return_LeaksOnError(res, e) ==
    /\ pc' = "returned"
    /\ result' = res
    /\ err' = e
    /\ body' = IF body = "open" /\ e = NoErr THEN "closed" ELSE body

\* Mutant: a stream that fails is abandoned and the request issued again.
Return_ReconnectsOnError(res, e) ==
    IF body = "open" /\ e # NoErr /\ statusCode \in 200..299
    THEN /\ pc' = "connecting"
         /\ body' = "closed"
         /\ UNCHANGED <<result, err>>
    ELSE /\ pc' = "returned"
         /\ result' = res
         /\ err' = e
         /\ body' = IF body = "open" THEN "closed" ELSE body

\* return: the deferred resp.Body.Close() runs when a response was obtained.
Return(res, e) ==
    /\ pc' = "returned"
    /\ result' = res
    /\ err' = e
    /\ body' = IF body = "open" THEN "closed" ELSE body

\* RunStreamingAgentAndWait(ctx, id, body) up to c.httpClient.Do(req);
\* marshals says whether json.Marshal(body) succeeds.
Call(ctx, id, marshals) ==
    /\ pc = "idle"
    /\ callerCtx' = ctx
    /\ agentID' = id
    /\ start' = now
    /\ deadline' = SelectDeadline(OrBackground(ctx), now)
    /\ IF marshals
       THEN /\ pc' = "connecting"
            /\ requests' = requests + 1
            /\ UNCHANGED <<result, err, body>>
       ELSE /\ Return(Nil, MarshalErr)
            /\ UNCHANGED requests
    /\ UNCHANGED <<clock, client, statusCode, raw, buffered, derr, rerr,
                   locals, observed, others>>

\* c.httpClient.Do(req) returns a response with the given status.
DoResponds(code) ==
    /\ pc = "connecting"
    /\ ~Expired(deadline, now)
    /\ ~Expired(ClientDeadline, now)
    /\ statusCode' = code
    /\ body' = "open"
    /\ pc' = IF IsNon2xx(code) THEN "readall" ELSE "streaming"
    /\ derr' = NoErr
    /\ UNCHANGED <<clock, client, call, requests, raw, buffered, rerr, locals,
                   result, err, observed, others>>

\* c.httpClient.Do(req) returns a transport error.
DoFails(e) ==
    /\ pc = "connecting"
    /\ derr' = e
    /\ Return(Nil, e)
    /\ UNCHANGED <<clock, client, call, requests, statusCode, raw, buffered,
                   rerr, locals, observed, others>>

\* c.httpClient.Do(req) returns because a deadline has passed.
DoTimesOut ==
    /\ pc = "connecting"
    /\ \/ /\ Expired(deadline, now)
          /\ derr' = CtxDeadlineErr
          /\ Return(Nil, CtxDeadlineErr)
       \/ /\ Expired(ClientDeadline, now)
          /\ derr' = ClientTimeoutErr
          /\ Return(Nil, ClientTimeoutErr)
    /\ UNCHANGED <<clock, client, call, requests, statusCode, raw, buffered,
                   rerr, locals, observed, others>>

\* The non-2xx branch: io.ReadAll has read b (its error is dropped).
StatusReturn(b) ==
    /\ pc = "readall"
    /\ raw' = b
    /\ Return(Nil, StatusError(statusCode, BuildURL(agentID), b))
    /\ UNCHANGED <<clock, client, call, requests, statusCode, buffered, derr,
                   rerr, locals, observed, others>>

\* ReadString finds no complete line in the bufio.Reader and reads the body:
\* bytes of the peer arrive, one complete line or more.
Fill ==
    /\ pc = "streaming"
    /\ ~buffered
    /\ ~Expired(deadline, now)
    /\ ~Expired(ClientDeadline, now)
    /\ buffered' = TRUE
    /\ UNCHANGED <<clock, client, call, pc, requests, statusCode, body, raw,
                   derr, rerr, locals, result, err, observed, others>>

\* The data of the accumulated record, as the stream's format defines it.
Payload(dl) == TrimSuffix(Join(dl, <<LF>>), <<LF>>)

\* What a boundary (a blank line, or the end of the stream) shows of the
\* accumulated record.
Observe ==
    LET p == Payload(dataLines)
        good == p # <<>> /\ Decodable(p)
    IN  /\ initSeen' = IF currentEvent = <<"init">> /\ good
                       THEN Unmarshal(p).parsed ELSE initSeen
        /\ doneSeen' = IF currentEvent = <<"done">> /\ good /\ doneSeen = Nil
                       THEN Unmarshal(p).parsed ELSE doneSeen
        /\ badInit' = (badInit \/ (currentEvent = <<"init">> /\ p # <<>>
                                    /\ ~Decodable(p)))

\* reader.ReadString('\n') returns the line ln and no error; the loop body
\* runs.  more says whether another complete line is left in the reader.
ReadLine(ln, more) ==
    /\ pc = "streaming"
    /\ buffered
    /\ LET l == TrimRight(ln, {CR, LF})
           r == LoopBody(ln, currentEvent, dataLines, lastSeen)
       IN  /\ Len(r.dataLines) <= MaxDataLines
           /\ buffered' = more
           /\ rerr' = NoErr
           /\ currentEvent' = r.currentEvent
           /\ dataLines' = r.dataLines
           /\ lastSeen' = r.lastSeen
           /\ IF l = <<>> THEN Observe ELSE UNCHANGED observed
           /\ IF r.returns
              THEN Return(r.ret, NoErr)
              ELSE UNCHANGED <<pc, result, err, body>>
    /\ UNCHANGED <<clock, client, call, requests, statusCode, raw, derr,
                   others>>

\* reader.ReadString('\n') returns the error e (and what it had read of an
\* unfinished line); the function returns.
ReadFails(e) ==
    LET r == OnReadError(e, currentEvent, dataLines, lastSeen) IN
    /\ rerr' = e
    /\ currentEvent' = r.currentEvent
    /\ dataLines' = r.dataLines
    /\ lastSeen' = r.lastSeen
    /\ Return(r.result, r.err)
    /\ UNCHANGED <<clock, client, call, requests, statusCode, raw, buffered,
                   derr, others>>

\* The peer closed the stream.
ReadEOF ==
    /\ pc = "streaming"
    /\ ~buffered
    /\ Observe
    /\ ReadFails(EOF)

\* The connection failed while the loop was blocked in ReadString.
ReadError(e) ==
    /\ pc = "streaming"
    /\ ~buffered
    /\ UNCHANGED observed
    /\ ReadFails(e)

\* A deadline passed while the loop was blocked in ReadString.
ReadTimesOut ==
    /\ pc = "streaming"
    /\ ~buffered
    /\ UNCHANGED observed
    /\ \/ Expired(deadline, now) /\ ReadFails(CtxDeadlineErr)
       \/ Expired(ClientDeadline, now) /\ ReadFails(ClientTimeoutErr)

Next ==
    \/ Tick
    \/ \E c \in CallerCtxs(now), id \in AgentIDs, m \in BOOLEAN : Call(c, id, m)
    \/ \E code \in StatusCodes : DoResponds(code)
    \/ \E e \in TransportErrors : DoFails(e)
    \/ DoTimesOut
    \/ \E b \in Bodies : StatusReturn(b)
    \/ Fill
    \/ \E ln \in Lines, more \in BOOLEAN : ReadLine(ln, more)
    \/ ReadEOF
    \/ \E e \in TransportErrors : ReadError(e)
    \/ ReadTimesOut

Spec == Init /\ [][Next]_vars

\* Weak fairness of what the program and its runtime do unasked: time passes,
\* a passed deadline ends a blocked request or read, the loop consumes the
\* lines the reader holds down to the last one (the reader's buffer is
\* finite), and io.ReadAll of an error body comes back.  The peer owes
\* nothing: it may never answer, never send and never close.
FairSpec ==
    /\ Spec
    /\ WF_vars(Tick)
    /\ WF_vars(DoTimesOut)
    /\ WF_vars(ReadTimesOut)
    /\ WF_vars(\E ln \in Lines : ReadLine(ln, FALSE))
    /\ WF_vars(\E b \in Bodies : StatusReturn(b))

\* ---------------------------------------------- read loops side by side

\* A record accumulates at most MaxRecordLines data lines, and at most
\* MaxComments comment lines arrive between two boundaries.
MaxRecordLines == 3
MaxComments == 2
\* Two loops that run side by side accumulate at most MaxConcLines data
\* lines each.
MaxConcLines == 1

\* The invocations of RunStreamingAgentAndWait that run side by side.
Calls == {1, 2}

\* Mutant: the locals of the loop are shared by all invocations.
Frame_Shared(i) == 1

\* The locals currentEvent, dataLines and lastSeen are declared in the body of
\* the function: invocation i has a frame of its own.
Frame(i) == i

\* var currentEvent string; var dataLines []string; var lastSeen *AgentRunResponse
EmptyFrame == [currentEvent |-> <<>>, dataLines |-> <<>>, lastSeen |-> Nil]

\* The lines a peer sends, by what they are meant to be.
Blank == [kind |-> "blank", value |-> <<>>]
Comment == [kind |-> "comment", value |-> <<"keepalive">>]
EventLine(v) == [kind |-> "event", value |-> v]
DataLine(v) == [kind |-> "data", value |-> v]
IdLine == [kind |-> "id", value |-> <<"7">>]
\* A line made of a field name, a separator and a value: the name holds no
\* colon, the separator is empty (and so is the value), a colon, or a colon
\* and spaces, and the value does not begin with a space.
FieldLine(name, sep, value) ==
    [kind |-> "field", name |-> name, sep |-> sep, value |-> value]

\* The text of a line, without its terminator.
Render(x) ==
    CASE x.kind = "blank" -> <<>>
      [] x.kind = "comment" -> <<COLON, SP>> \o x.value
      [] x.kind = "event" /\ x.value = <<>> -> <<"event">>
      [] x.kind = "field" -> x.name \o x.sep \o x.value
      [] OTHER -> <<x.kind, COLON, SP>> \o x.value

\* The lines of a stream read by one loop ...
StreamLines ==
    {Blank, Comment, IdLine}
    \cup {EventLine(v) : v \in {<<"init">>, <<"done">>, <<"ping">>, <<>>}}
    \cup {DataLine(v) : v \in {<<"J1">>, <<"J2">>, <<Garbage>>, <<>>}}

\* ... and by each of two loops that run side by side.
ConcLines ==
    {Blank, EventLine(<<"init">>), EventLine(<<"done">>),
     DataLine(<<"J1">>), DataLine(<<"J2">>)}

\* The errors that end a stream: the peer closes it, or the connection
\* is reset.
StreamEnds == {EOF, [kind |-> "net.OpError"]}

\* The locals of invocation i and what it has returned.
Actual(i) ==
    [currentEvent |-> frame[Frame(i)].currentEvent,
     dataLines |-> frame[Frame(i)].dataLines,
     lastSeen |-> frame[Frame(i)].lastSeen,
     pc |-> ret[i].pc, result |-> ret[i].result, err |-> ret[i].err]

\* A loop of its own, before its first read.
FreshLoop ==
    [currentEvent |-> <<>>, dataLines |-> <<>>, lastSeen |-> Nil,
     pc |-> "reading", result |-> Nil, err |-> NoErr]

\* That loop after it has read the line ln.
LoopReads(sh, ln) ==
    IF sh.pc = "returned" THEN sh
    ELSE LET r == LoopBody(ln, sh.currentEvent, sh.dataLines, sh.lastSeen) IN
         [currentEvent |-> r.currentEvent, dataLines |-> r.dataLines,
          lastSeen |-> r.lastSeen,
          pc |-> IF r.returns THEN "returned" ELSE "reading",
          result |-> IF r.returns THEN r.ret ELSE Nil, err |-> NoErr]

\* That loop after its read has failed with e.
LoopEnds(sh, e) ==
    IF sh.pc = "returned" THEN sh
    ELSE LET r == OnReadError(e, sh.currentEvent, sh.dataLines, sh.lastSeen) IN
         [currentEvent |-> r.currentEvent, dataLines |-> r.dataLines,
          lastSeen |-> r.lastSeen, pc |-> "returned",
          result |-> r.result, err |-> r.err]

RECURSIVE JoinedByLF(_)
\* The values, each but the last followed by a newline.
JoinedByLF(vals) ==
    IF Len(vals) = 0 THEN <<>>
    ELSE IF Len(vals) = 1 THEN vals[1]
    ELSE JoinedByLF(SubSeq(vals, 1, Len(vals) - 1)) \o <<LF>> \o vals[Len(vals)]

\* The payload of a record whose data lines carried vals: the values joined
\* by newlines, less one newline at the end when there is one.
ExpectedPayload(vals) ==
    LET j == JoinedByLF(vals) IN
    IF Len(j) > 0 /\ j[Len(j)] = LF THEN SubSeq(j, 1, Len(j) - 1) ELSE j

\* No text was cut off at the end of the stream.
NoTail == [text |-> <<>>, ev |-> <<>>, vals |-> <<>>]

\* What is known of a stream before its first line: the loop run alone on
\* it, the loop run on it less its comment lines, the event type and data
\* values sent since the last boundary, the comment lines since then, the
\* state of the latest init or done record with decodable data, and whether
\* a decodable record of another event type and a done record with
\* undecodable data have passed a boundary.  Of a stream whose line ends
\* vary and whose last line may be cut off, moreover: the loop run on it
\* with every line ended by one LF, whether an init or done record without
\* data has passed a boundary, the text cut off at the end with the event
\* type and data values sent before it, the state that the latest init or
\* done record with decodable data replaced, and whether a line with a
\* field name other than event and data has been read.
NothingSeen ==
    [alone |-> FreshLoop, plain |-> FreshLoop, ev |-> <<>>, vals |-> <<>>,
     comments |-> 0, good |-> Nil, other |-> FALSE, badDone |-> FALSE,
     lf |-> FreshLoop, empty |-> FALSE, tail |-> NoTail, prev |-> Nil,
     ignored |-> FALSE]

\* What a boundary shows of the record sent; completes says that the record
\* is a done record with decodable data.
Completes(o) ==
    /\ o.ev = <<"done">>
    /\ ExpectedPayload(o.vals) # <<>>
    /\ Decodable(ExpectedPayload(o.vals))

AtBoundary(o) ==
    LET p == ExpectedPayload(o.vals)
        decodable == p # <<>> /\ Decodable(p)
        known == o.ev \in {<<"init">>, <<"done">>}
    IN  [o EXCEPT
           !.good = IF known /\ decodable THEN Unmarshal(p).parsed ELSE @,
           !.other = @ \/ (~known /\ decodable),
           !.badDone = @ \/ (o.ev = <<"done">> /\ p # <<>> /\ ~Decodable(p)),
           !.ev = IF Completes(o) THEN @ ELSE <<>>,
           !.vals = IF Completes(o) THEN @ ELSE <<>>,
           !.comments = IF Completes(o) THEN @ ELSE 0]

\* What is known of the stream once the line x has been read.
ObserveLine(o, x) ==
    LET ln == Render(x) \o <<LF>>
        seen == [o EXCEPT
                   !.alone = LoopReads(@, ln),
                   !.plain = IF x.kind = "comment" THEN @ ELSE LoopReads(@, ln)]
    IN  CASE x.kind = "blank" -> AtBoundary(seen)
          [] x.kind = "comment" -> [seen EXCEPT !.comments = @ + 1]
          [] x.kind = "event" -> [seen EXCEPT !.ev = x.value]
          [] x.kind = "data" -> [seen EXCEPT !.vals = Append(@, x.value)]
          [] x.kind = "field" ->
               LET v == IF Len(x.sep) > 2
                        THEN SubSeq(x.sep, 3, Len(x.sep)) \o x.value
                        ELSE x.value
               IN  [seen EXCEPT
                      !.ev = IF x.name = <<"event">> THEN v ELSE @,
                      !.vals = IF x.name = <<"data">> THEN Append(@, v) ELSE @,
                      !.ignored = @ \/ x.name \notin {<<"event">>, <<"data">>}]
          [] OTHER -> seen

\* What is known of the stream once it has ended with e.
ObserveEnd(o, e) ==
    LET seen == [o EXCEPT !.alone = LoopEnds(@, e), !.plain = LoopEnds(@, e)]
    IN  IF e = EOF THEN AtBoundary(seen) ELSE seen

\* Every data value is empty.
AllEmpty(vals) == \A k \in 1..Len(vals) : vals[k] = <<>>

\* The record sent is an init or done record whose data decodes.
Replaces(o) ==
    /\ o.ev \in {<<"init">>, <<"done">>}
    /\ ExpectedPayload(o.vals) # <<>>
    /\ Decodable(ExpectedPayload(o.vals))

\* What is known of the stream once the line x has been read, whatever
\* ended the line.
ObserveText(o, x) ==
    [ObserveLine(o, x) EXCEPT
       !.lf = LoopReads(@, Render(x) \o <<LF>>),
       !.prev = IF x.kind = "blank" /\ Replaces(o) THEN o.good ELSE @,
       !.empty = @ \/ (/\ x.kind = "blank"
                        /\ o.ev \in {<<"init">>, <<"done">>}
                        /\ AllEmpty(o.vals))]

\* What is known of the stream once it has ended with e, the text of x cut
\* off before its newline.
ObserveCut(o, x, e) ==
    [ObserveEnd(o, e) EXCEPT
       !.lf = LoopEnds(@, e),
       !.prev = IF e = EOF /\ Replaces(o) THEN o.good ELSE @,
       !.empty = @ \/ (/\ e = EOF
                        /\ o.ev \in {<<"init">>, <<"done">>}
                        /\ AllEmpty(o.vals)),
       !.tail = [text |-> Render(x), ev |-> o.ev, vals |-> o.vals]]

\* Invocation i has its 2xx response and enters the read loop.
Begin(i) ==
    /\ i \notin DOMAIN ret
    /\ frame' = [s \in DOMAIN frame \cup {Frame(i)} |->
                    IF s = Frame(i) THEN EmptyFrame ELSE frame[s]]
    /\ ret' = [j \in DOMAIN ret \cup {i} |->
                  IF j = i
                  THEN [pc |-> "reading", result |-> Nil, err |-> NoErr,
                        rerr |-> NoErr]
                  ELSE ret[j]]
    /\ obs' = [j \in DOMAIN obs \cup {i} |->
                  IF j = i THEN NothingSeen ELSE obs[j]]
    /\ UNCHANGED <<streaming, cfg, do, up, fx>>

\* reader.ReadString('\n') of invocation i returns the line x and no error;
\* the loop body runs.  A record holds at most maxdl data lines.
LoopReadsLine(i, x, maxdl) ==
    /\ i \in DOMAIN ret
    /\ ret[i].pc = "reading"
    /\ x.kind = "comment" => obs[i].comments < MaxComments
    /\ LET f == frame[Frame(i)]
           r == LoopBody(Render(x) \o <<LF>>, f.currentEvent, f.dataLines,
                         f.lastSeen)
       IN  /\ Len(r.dataLines) <= maxdl
           /\ Len(obs[i].vals) < maxdl \/ x.kind # "data"
           /\ frame' = [frame EXCEPT ![Frame(i)] =
                          [currentEvent |-> r.currentEvent,
                           dataLines |-> r.dataLines,
                           lastSeen |-> r.lastSeen]]
           /\ ret' = IF r.returns
                     THEN [ret EXCEPT ![i] =
                             [pc |-> "returned", result |-> r.ret,
                              err |-> NoErr, rerr |-> NoErr]]
                     ELSE ret
    /\ obs' = [obs EXCEPT ![i] = ObserveLine(@, x)]
    /\ UNCHANGED <<streaming, cfg, do, up, fx>>

\* reader.ReadString('\n') of invocation i returns the error e; the
\* invocation returns.
LoopReadFails(i, e) ==
    /\ i \in DOMAIN ret
    /\ ret[i].pc = "reading"
    /\ LET f == frame[Frame(i)]
           r == OnReadError(e, f.currentEvent, f.dataLines, f.lastSeen)
       IN  /\ frame' = [frame EXCEPT ![Frame(i)] =
                          [currentEvent |-> r.currentEvent,
                           dataLines |-> r.dataLines,
                           lastSeen |-> r.lastSeen]]
           /\ ret' = [ret EXCEPT ![i] =
                        [pc |-> "returned", result |-> r.result,
                         err |-> r.err, rerr |-> e]]
    /\ obs' = [obs EXCEPT ![i] = ObserveEnd(@, e)]
    /\ UNCHANGED <<streaming, cfg, do, up, fx>>

\* One read loop on its stream.
StreamNext ==
    \/ Begin(1)
    \/ \E x \in StreamLines : LoopReadsLine(1, x, MaxRecordLines)
    \/ \E e \in StreamEnds : LoopReadFails(1, e)

\* The client is one NewClient built with its default HTTP client.
StreamInit == Init /\ clientTimeout = ClientDefaultTimeout

StreamSpec == StreamInit /\ [][StreamNext]_vars

\* Two read loops of one client, their reads interleaved in every order.
ConcNext ==
    \/ \E i \in Calls : Begin(i)
    \/ \E i \in Calls, x \in ConcLines : LoopReadsLine(i, x, MaxConcLines)
    \/ \E i \in Calls : LoopReadFails(i, EOF)

ConcSpec == StreamInit /\ [][ConcNext]_vars

\* ------------------------------------------------ line ends and cut lines

\* Where line ends vary a record accumulates at most MaxShortRecord data
\* lines.
MaxShortRecord == 2

\* What ends a line: LF, or CR LF.
LineEnds == {<<LF>>, <<CR, LF>>}

\* The lines of a stream whose line ends vary ...
TextLines ==
    {Blank, EventLine(<<"init">>), EventLine(<<"done">>)}
    \cup {DataLine(v) : v \in {<<"J1">>, <<"J2">>, <<"J3">>, <<Garbage>>, <<>>}}

\* ... and what the peer had sent of a next line when the stream ended:
\* nothing, a data line, or an event line.
Tails == {Blank, DataLine(<<"J2">>), EventLine(<<"done">>)}

\* reader.ReadString('\n') of invocation i returns the line x, ended by
\* term, and no error; the loop body runs.  A record holds at most maxdl
\* data lines.
LoopReadsText(i, x, term, maxdl) ==
    /\ i \in DOMAIN ret
    /\ ret[i].pc = "reading"
    /\ Len(ObserveText(obs[i], x).vals) <= maxdl
    /\ LET f == frame[Frame(i)]
           r == LoopTurn(Render(x) \o term, NoErr, f.currentEvent,
                         f.dataLines, f.lastSeen)
       IN  /\ Len(r.dataLines) <= maxdl
           /\ frame' = [frame EXCEPT ![Frame(i)] =
                          [currentEvent |-> r.currentEvent,
                           dataLines |-> r.dataLines,
                           lastSeen |-> r.lastSeen]]
           /\ ret' = IF r.returns
                     THEN [ret EXCEPT ![i] =
                             [pc |-> "returned", result |-> r.result,
                              err |-> r.err, rerr |-> NoErr]]
                     ELSE ret
    /\ obs' = [obs EXCEPT ![i] = ObserveText(@, x)]
    /\ UNCHANGED <<streaming, cfg, do, up, fx>>

\* reader.ReadString('\n') of invocation i returns the error e and, as its
\* line, the text of x: what it had read since the last newline.  The
\* invocation returns.
LoopReadsTail(i, x, e) ==
    /\ i \in DOMAIN ret
    /\ ret[i].pc = "reading"
    /\ LET f == frame[Frame(i)]
           r == LoopTurn(Render(x), e, f.currentEvent, f.dataLines,
                         f.lastSeen)
       IN  /\ frame' = [frame EXCEPT ![Frame(i)] =
                          [currentEvent |-> r.currentEvent,
                           dataLines |-> r.dataLines,
                           lastSeen |-> r.lastSeen]]
           /\ ret' = [ret EXCEPT ![i] =
                        [pc |-> "returned", result |-> r.result,
                         err |-> r.err, rerr |-> e]]
    /\ obs' = [obs EXCEPT ![i] = ObserveCut(@, x, e)]
    /\ UNCHANGED <<streaming, cfg, do, up, fx>>

\* One read loop on a stream whose lines end in LF or CR LF and whose last
\* line may be cut off.
LineNext ==
    \/ Begin(1)
    \/ \E x \in TextLines, term \in LineEnds :
          LoopReadsText(1, x, term, MaxShortRecord)
    \/ \E x \in Tails, e \in StreamEnds : LoopReadsTail(1, x, e)

LineSpec == StreamInit /\ [][LineNext]_vars

\* One read loop on a stream whose every line ends in CR LF.
CrlfNext ==
    \/ Begin(1)
    \/ \E x \in TextLines : LoopReadsText(1, x, <<CR, LF>>, MaxShortRecord)
    \/ \E e \in StreamEnds : LoopReadsTail(1, Blank, e)

CrlfSpec == StreamInit /\ [][CrlfNext]_vars

\* The field names, separators and values of the lines a peer sends: the
\* names event and data, another name and the name data followed by a
\* space; no colon, a colon, a colon and one space, a colon and two spaces;
\* no value, a word, a JSON document and a value that holds a colon.
FieldNames == {<<"event">>, <<"data">>, <<"id">>, <<"data", SP>>}
Separators == {<<COLON>>, <<COLON, SP>>, <<COLON, SP, SP>>}
FieldValues == {<<>>, <<"done">>, <<"J2">>, <<"J2", COLON, "x">>}
FieldLines ==
    {FieldLine(n, <<>>, <<>>) : n \in FieldNames}
    \cup {FieldLine(n, s, v) : n \in FieldNames, s \in Separators,
                               v \in FieldValues}

\* A record of such lines accumulates at most MaxFieldLines data lines.
MaxFieldLines == 1

\* One read loop on a stream of such lines and blank lines.
FieldNext ==
    \/ Begin(1)
    \/ \E x \in FieldLines \cup {Blank} :
          LoopReadsText(1, x, <<LF>>, MaxFieldLines)
    \/ \E e \in StreamEnds : LoopReadsTail(1, Blank, e)

FieldSpec == StreamInit /\ [][FieldNext]_vars

\* -------------------------------------------------------------- NewClient

\* const DefaultBaseURL = "https://seclai.com"
DefaultBaseURL == "https://seclai.com"

\* The header name NewClient falls back to.
DefaultAPIKeyHeader == "x-api-key"

\* return nil, &ConfigurationError{...}: no client
NoClient == [isNil |-> TRUE]

\* &ConfigurationError{Message: ...}
ConfigurationError(message) ==
    [kind |-> "ConfigurationError", Message |-> message]

\* A base URL url.Parse rejects (it has no scheme before its colon); the
\* other base URLs of the model parse, and URL.String gives them back.
InvalidURLs == {<<"://bad">>}

\* url.Parse(base) returns no error
UrlParses(base) == base \notin InvalidURLs

\* generated.NewClientWithResponses(server, WithHTTPClient(hc),
\* WithRequestEditorFn(fn)): neither option fails, the client is built.
GeneratedClientErr(server) == NoErr

\* Mutant: the environment is consulted first, the options second.
NewClient_EnvFirst(opts, env) ==
    LET envKey == TrimSpace(env.SECLAI_API_KEY)
        apiKey == IF envKey = <<>> THEN TrimSpace(opts.APIKey) ELSE envKey
        envBase == TrimSpace(env.SECLAI_API_URL)
        base1 == IF envBase = <<>> THEN TrimSpace(opts.BaseURL) ELSE envBase
        base == IF base1 = <<>> THEN <<DefaultBaseURL>> ELSE base1
        header0 == TrimSpace(opts.APIKeyHeader)
        header == IF header0 = <<>> THEN <<DefaultAPIKeyHeader>> ELSE header0
    IN  IF apiKey = <<>>
        THEN [client |-> NoClient, err |-> ConfigurationError("missing API key")]
        ELSE IF ~UrlParses(base)
        THEN [client |-> NoClient, err |-> ConfigurationError("invalid base URL")]
        ELSE [client |-> [apiKey |-> apiKey, baseURL |-> base,
                          apiKeyHeader |-> header,
                          timeout |-> IF opts.HTTPClient.isNil
                                      THEN ClientDefaultTimeout
                                      ELSE opts.HTTPClient.Timeout],
              err |-> NoErr]

\* NewClient(opts) in the environment env: the client and the error returned.
NewClient(opts, env) ==
    LET apiKey0 == TrimSpace(opts.APIKey)
        apiKey == IF apiKey0 = <<>> THEN TrimSpace(env.SECLAI_API_KEY)
                  ELSE apiKey0
        base0 == TrimSpace(opts.BaseURL)
        base1 == IF base0 = <<>> THEN TrimSpace(env.SECLAI_API_URL) ELSE base0
        base == IF base1 = <<>> THEN <<DefaultBaseURL>> ELSE base1
        header0 == TrimSpace(opts.APIKeyHeader)
        header == IF header0 = <<>> THEN <<DefaultAPIKeyHeader>> ELSE header0
    IN  IF apiKey = <<>>
        THEN [client |-> NoClient, err |-> ConfigurationError("missing API key")]
        ELSE IF ~UrlParses(base)
        THEN [client |-> NoClient, err |-> ConfigurationError("invalid base URL")]
        ELSE IF GeneratedClientErr(base) # NoErr
        THEN [client |-> NoClient,
              err |-> ConfigurationError("failed to construct generated client")]
        ELSE [client |-> [apiKey |-> apiKey, baseURL |-> base,
                          apiKeyHeader |-> header,
                          timeout |-> IF opts.HTTPClient.isNil
                                      THEN ClientDefaultTimeout
                                      ELSE opts.HTTPClient.Timeout],
              err |-> NoErr]

\* The values of Options.APIKey and of SECLAI_API_KEY: unset, white space
\* only, a key, a key with white space around it.
KeyTexts == {<<>>, <<SP, TAB>>, <<"k1">>, <<SP, "k2", LF>>}

\* The values of Options.BaseURL and of SECLAI_API_URL.
UrlTexts ==
    {<<>>, <<SP>>, <<"https://api.test">>, <<SP, "https://env.test", LF>>,
     <<"://bad">>}

\* The values of Options.APIKeyHeader.
HeaderTexts == {<<>>, <<SP>>, <<"authorization">>, <<SP, "x-key", SP>>}

\* The values of Options.HTTPClient: nil, or a client without a timeout.
HTTPClients == {[isNil |-> TRUE, Timeout |-> 0], [isNil |-> FALSE, Timeout |-> 0]}

\* The Options a caller passes.
OptionSets ==
    [APIKey : KeyTexts, BaseURL : UrlTexts, APIKeyHeader : HeaderTexts,
     HTTPClient : HTTPClients]

\* The environment variables NewClient reads.
EnvNames == {"SECLAI_API_KEY", "SECLAI_API_URL"}

\* os.Setenv(name, value) before the client is built
Setenv(name, value) ==
    /\ cfg.pc = "idle"
    /\ name \in EnvNames
    /\ cfg.env[name] # value
    /\ cfg' = [cfg EXCEPT !.env[name] = value]
    /\ UNCHANGED <<streaming, do, up, fx, frame, ret, obs>>

\* NewClient(opts) runs and returns.
NewClientCall(opts) ==
    /\ cfg.pc = "idle"
    /\ LET r == NewClient(opts, cfg.env) IN
       cfg' = [pc |-> "returned", env |-> cfg.env, opts |-> opts,
               client |-> r.client, err |-> r.err]
    /\ UNCHANGED <<streaming, do, up, fx, frame, ret, obs>>

ConfigNext ==
    \/ \E v \in KeyTexts : Setenv("SECLAI_API_KEY", v)
    \/ \E v \in UrlTexts : Setenv("SECLAI_API_URL", v)
    \/ \E opts \in OptionSets : NewClientCall(opts)

ConfigSpec == StreamInit /\ [][ConfigNext]_vars

\* -------------------------------------------------------------- Client.Do

\* json.Unmarshal(raw, out) failed
DecodeErr == [kind |-> "json.SyntaxError"]

\* http.MethodGet, http.MethodPost
Methods == {"GET", "POST"}

\* c.buildURL(apiPath, nil) for a clean path that begins with a slash, on a
\* client whose base URL is DefaultBaseURL
DoURL(apiPath) == <<"https://seclai.com", apiPath>>

\* Mutant: every 4xx code is reported as a validation error.
DoStatusError_ValidationFor4xx(code, method, url, rawBody) ==
    LET text == TrimSpace(rawBody) IN
    IF code >= 400 /\ code < 500
    THEN [kind |-> "APIValidationError", StatusCode |-> code,
          Method |-> method, URL |-> url, ResponseText |-> text,
          ValidationError |->
              IF Len(rawBody) > 0 /\ ValidationDecodable(rawBody)
              THEN DecodeValidation(rawBody) ELSE Nil]
    ELSE [kind |-> "APIStatusError", StatusCode |-> code,
          Method |-> method, URL |-> url, ResponseText |-> text]

\* The error of Do's non-2xx branch.
DoStatusError(code, method, url, rawBody) ==
    LET text == TrimSpace(rawBody)
        statusErr == [kind |-> "APIStatusError", StatusCode |-> code,
                      Method |-> method, URL |-> url, ResponseText |-> text]
    IN  IF code = 422
        THEN IF Len(rawBody) > 0 /\ ValidationDecodable(rawBody)
             THEN [kind |-> "APIValidationError", StatusCode |-> code,
                   Method |-> method, URL |-> url, ResponseText |-> text,
                   ValidationError |-> DecodeValidation(rawBody)]
             ELSE [kind |-> "APIValidationError", StatusCode |-> code,
                   Method |-> method, URL |-> url, ResponseText |-> text,
                   ValidationError |-> Nil]
        ELSE statusErr

\* What Do returns once it has the response: raw is what io.ReadAll read,
\* out says whether the out argument is non-nil.
DoOutcome(code, method, url, rawBody, out) ==
    IF IsNon2xx(code) THEN DoStatusError(code, method, url, rawBody)
    ELSE IF ~out THEN NoErr
    ELSE IF Len(rawBody) = 0 THEN NoErr
    ELSE IF Decodable(rawBody) THEN NoErr
    ELSE DecodeErr

\* Status codes of a response to Do: the ends of 200..299 and their
\* neighbours, 204, 422 and its neighbours, 404 and 500.
DoStatusCodes == {199, 200, 204, 299, 300, 404, 421, 422, 423, 500}

\* Response bodies: empty, a message, a JSON object, the validation payload
\* (bare and with white space around it), and a cut-off document.
DoBodies ==
    {<<>>,
     <<SP, "not", SP, "found", LF>>,
     <<"J1">>,
     <<"VE">>,
     <<SP, "VE", LF>>,
     <<"VE", Garbage>>}

\* The body argument of Do: nil, a value json.Marshal accepts, one it rejects.
DoRequestBodies == {"nil", "value", "unmarshalable"}

\* Do(ctx, method, apiPath, nil, reqBody, nil, out) up to c.httpClient.Do(req)
ClientDo(method, apiPath, reqBody, out) ==
    /\ do.pc = "idle"
    /\ do' = IF reqBody = "unmarshalable"
             THEN [pc |-> "returned", method |-> method, apiPath |-> apiPath,
                   out |-> out, statusCode |-> 0, raw |-> <<>>,
                   body |-> "none", err |-> MarshalErr]
             ELSE [pc |-> "connecting", method |-> method, apiPath |-> apiPath,
                   out |-> out, statusCode |-> 0, raw |-> <<>>,
                   body |-> "none", err |-> NoErr]
    /\ UNCHANGED <<streaming, cfg, up, fx, frame, ret, obs>>

\* c.httpClient.Do(req) returns a transport error.
ClientDoFails(e) ==
    /\ do.pc = "connecting"
    /\ do' = [do EXCEPT !.pc = "returned", !.err = e]
    /\ UNCHANGED <<streaming, cfg, up, fx, frame, ret, obs>>

\* c.httpClient.Do(req) returns a response; io.ReadAll reads b; Do returns
\* and the deferred resp.Body.Close() runs.
ClientDoResponds(code, b) ==
    /\ do.pc = "connecting"
    /\ do' = [do EXCEPT !.pc = "returned", !.statusCode = code, !.raw = b,
                        !.body = "closed",
                        !.err = DoOutcome(code, do.method, DoURL(do.apiPath),
                                          b, do.out)]
    /\ UNCHANGED <<streaming, cfg, up, fx, frame, ret, obs>>

DoNext ==
    \/ \E m \in Methods, b \in DoRequestBodies, out \in BOOLEAN :
           ClientDo(m, "/sources/", b, out)
    \/ \E e \in TransportErrors : ClientDoFails(e)
    \/ \E code \in DoStatusCodes, b \in DoBodies : ClientDoResponds(code, b)

DoSpec == Init /\ [][DoNext]_vars

\* ------------------------------------------------ Client.UploadFileToSource

\* A source connection id of unreserved characters only.
SourceIDs == {"src_1"}

\* c.buildURL(fmt.Sprintf("/api/sources/%s/upload", url.PathEscape(id)), nil)
\* on a client whose base URL is DefaultBaseURL
UploadURL(id) == <<"https://seclai.com", "/api/sources/", id, "/upload">>

\* json.Unmarshal(raw, &out) == nil for a FileUploadResponse: raw is a JSON
\* object, its unknown keys being skipped
UploadDecodable(rawBody) ==
    LET d == StripSpace(rawBody) IN Len(d) = 1 /\ d[1] \in ValidationDocs

\* Mutant: the response text is the body as it was read, not trimmed.
UploadStatusError_RawText(code, url, rawBody) ==
    LET statusErr == [kind |-> "APIStatusError", StatusCode |-> code,
                      Method |-> "POST", URL |-> url, ResponseText |-> rawBody]
    IN  IF code = 422
        THEN IF Len(rawBody) > 0 /\ ValidationDecodable(rawBody)
             THEN [kind |-> "APIValidationError", StatusCode |-> code,
                   Method |-> "POST", URL |-> url, ResponseText |-> rawBody,
                   ValidationError |-> DecodeValidation(rawBody)]
             ELSE [kind |-> "APIValidationError", StatusCode |-> code,
                   Method |-> "POST", URL |-> url, ResponseText |-> rawBody,
                   ValidationError |-> Nil]
        ELSE statusErr

\* The error of UploadFileToSource's non-2xx branch.
UploadStatusError(code, url, rawBody) ==
    LET text == TrimSpace(rawBody)
        statusErr == [kind |-> "APIStatusError", StatusCode |-> code,
                      Method |-> "POST", URL |-> url, ResponseText |-> text]
    IN  IF code = 422
        THEN IF Len(rawBody) > 0 /\ ValidationDecodable(rawBody)
             THEN [kind |-> "APIValidationError", StatusCode |-> code,
                   Method |-> "POST", URL |-> url, ResponseText |-> text,
                   ValidationError |-> DecodeValidation(rawBody)]
             ELSE [kind |-> "APIValidationError", StatusCode |-> code,
                   Method |-> "POST", URL |-> url, ResponseText |-> text,
                   ValidationError |-> Nil]
        ELSE statusErr

\* What UploadFileToSource returns once it has the response: raw is what
\* io.ReadAll read; the result is nil or &out.
UploadOutcome(code, url, rawBody) ==
    IF IsNon2xx(code)
    THEN [result |-> Nil, err |-> UploadStatusError(code, url, rawBody)]
    ELSE IF Len(rawBody) > 0 /\ ~UploadDecodable(rawBody)
    THEN [result |-> Nil, err |-> DecodeErr]
    ELSE [result |-> "out", err |-> NoErr]

\* req.File and req.FileName of an UploadFileRequest.
UploadFiles == {<<>>, <<"bytes">>}
UploadFileNames == {<<>>, <<SP>>, <<"a.txt">>}

\* UploadFileToSource(ctx, id, req) up to c.httpClient.Do(httpReq)
Upload(id, file, fileName) ==
    /\ up.pc = "idle"
    /\ up' = IF Len(file) = 0
             THEN [pc |-> "returned", source |-> id, statusCode |-> 0,
                   raw |-> <<>>, body |-> "none", result |-> Nil,
                   err |-> ConfigurationError(
                              "upload requires non-empty file bytes")]
             ELSE IF TrimSpace(fileName) = <<>>
             THEN [pc |-> "returned", source |-> id, statusCode |-> 0,
                   raw |-> <<>>, body |-> "none", result |-> Nil,
                   err |-> ConfigurationError("upload requires FileName")]
             ELSE [pc |-> "connecting", source |-> id, statusCode |-> 0,
                   raw |-> <<>>, body |-> "none", result |-> Nil,
                   err |-> NoErr]
    /\ UNCHANGED <<streaming, cfg, do, fx, frame, ret, obs>>

\* c.httpClient.Do(httpReq) returns a transport error.
UploadFails(e) ==
    /\ up.pc = "connecting"
    /\ up' = [up EXCEPT !.pc = "returned", !.err = e]
    /\ UNCHANGED <<streaming, cfg, do, fx, frame, ret, obs>>

\* c.httpClient.Do(httpReq) returns a response; io.ReadAll reads b;
\* UploadFileToSource returns and the deferred resp.Body.Close() runs.
UploadResponds(code, b) ==
    LET o == UploadOutcome(code, UploadURL(up.source), b) IN
    /\ up.pc = "connecting"
    /\ up' = [up EXCEPT !.pc = "returned", !.statusCode = code, !.raw = b,
                        !.body = "closed", !.result = o.result,
                        !.err = o.err]
    /\ UNCHANGED <<streaming, cfg, do, fx, frame, ret, obs>>

\* ------------------------------------- one response on the three paths

\* The streaming call, the Do call and the upload have been answered so far
\* with the status code, and their bodies read so far hold b.
SameStatus(code) ==
    /\ body # "none" => statusCode = code
    /\ (do.pc = "returned" /\ do.body # "none") => do.statusCode = code
    /\ (up.pc = "returned" /\ up.body # "none") => up.statusCode = code

SameBody(b) ==
    /\ (pc = "returned" /\ body = "closed") => raw = b
    /\ (do.pc = "returned" /\ do.body # "none") => do.raw = b
    /\ (up.pc = "returned" /\ up.body # "none") => up.raw = b

\* A streaming call, a Do call and an upload of one client, each answered
\* with the same status code and the same body.
TaxonomyNext ==
    \/ \E c \in CallerCtxs(now) : Call(c, "agent_1", TRUE)
    \/ \E code \in DoStatusCodes : SameStatus(code) /\ DoResponds(code)
    \/ \E b \in DoBodies : SameBody(b) /\ StatusReturn(b)
    \/ \E m \in Methods, out \in BOOLEAN : ClientDo(m, "/sources/", "value", out)
    \/ \E code \in DoStatusCodes, b \in DoBodies :
          SameStatus(code) /\ SameBody(b) /\ ClientDoResponds(code, b)
    \/ \E id \in SourceIDs, f \in UploadFiles, n \in UploadFileNames :
          Upload(id, f, n)
    \/ \E e \in TransportErrors : UploadFails(e)
    \/ \E code \in DoStatusCodes, b \in DoBodies :
          SameStatus(code) /\ SameBody(b) /\ UploadResponds(code, b)

TaxonomySpec == StreamInit /\ [][TaxonomyNext]_vars

\* ------------------------------------------------------------ cmd/specfix

\* A decoded JSON document (json.Unmarshal into any): a string, a bool, a
\* float64, a []any or a map[string]any.  A map is a function from its keys.
JString(s) == [t |-> "string", s |-> s]
JBool(b) == [t |-> "bool", b |-> b]
JNumber(n) == [t |-> "number", n |-> n]
JArray(a) == [t |-> "array", a |-> a]
JObject(m) == [t |-> "object", m |-> m]

\* s[:3] == "3.1" on the version strings a document carries
Versions == {"3.0.3", "3.1.0", "3.1.1"}
HasPrefix31(s) == s \in {"3.1.0", "3.1.1"}

\* isNullSchema(schema): type is "null", or a list that holds "null"
IsNullSchema(schema) ==
    /\ "type" \in DOMAIN schema
    /\ \/ schema["type"].t = "string" /\ schema["type"].s = "null"
       \/ /\ schema["type"].t = "array"
          /\ \E i \in DOMAIN schema["type"].a :
                /\ schema["type"].a[i].t = "string"
                /\ schema["type"].a[i].s = "null"

\* transformNullableAnyOf(obj, key): whether obj was rewritten, and obj
\* afterwards.  merged takes the outer keys but key, then the non-null
\* schema's keys over them, then nullable.
TransformNullableAnyOf(obj, key) ==
    IF key \notin DOMAIN obj \/ obj[key].t # "array"
    THEN [ok |-> FALSE, obj |-> obj]
    ELSE
    LET arr == obj[key].a
        nulls == {i \in DOMAIN arr :
                     arr[i].t = "object" /\ IsNullSchema(arr[i].m)}
        nonNulls == {i \in DOMAIN arr :
                        arr[i].t = "object" /\ ~IsNullSchema(arr[i].m)}
    IN  IF Len(arr) # 2 \/ nulls = {} \/ nonNulls = {}
        THEN [ok |-> FALSE, obj |-> obj]
        ELSE LET nonNull == arr[CHOOSE i \in nonNulls : TRUE].m
                 keys == ((DOMAIN obj \ {key}) \cup DOMAIN nonNull)
                            \cup {"nullable"}
             IN  [ok |-> TRUE,
                  obj |-> [k \in keys |->
                             IF k = "nullable" THEN JBool(TRUE)
                             ELSE IF k \in DOMAIN nonNull THEN nonNull[k]
                             ELSE obj[k]]]

\* transformNullableTypeArray(obj)
TransformNullableTypeArray(obj) ==
    IF "type" \notin DOMAIN obj \/ obj["type"].t # "array"
    THEN [ok |-> FALSE, obj |-> obj]
    ELSE
    LET t == obj["type"].a
        nullFound == \E i \in DOMAIN t : t[i].s = "null"
        others2 == {i \in DOMAIN t : t[i].s # "null"}
        other == IF others2 = {} THEN ""
                 ELSE t[CHOOSE i \in others2 : \A j \in others2 : j <= i].s
    IN  IF \/ Len(t) # 2
           \/ \E i \in DOMAIN t : t[i].t # "string"
           \/ ~nullFound
           \/ other = ""
        THEN [ok |-> FALSE, obj |-> obj]
        ELSE [ok |-> TRUE,
              obj |-> [k \in DOMAIN obj \cup {"nullable"} |->
                         IF k = "type" THEN JString(other)
                         ELSE IF k = "nullable" THEN JBool(TRUE)
                         ELSE obj[k]]]

\* The version downgrade at the head of fix.
Downgrade(v) ==
    IF "openapi" \in DOMAIN v /\ v["openapi"].t = "string"
       /\ HasPrefix31(v["openapi"].s)
    THEN [v EXCEPT !["openapi"] = JString("3.0.3")]
    ELSE v

\* fix(node): the node afterwards.  A map is downgraded, rewritten for anyOf,
\* then for oneOf, then for a type list, and then its children are walked.
RECURSIVE Fix(_)
Fix(node) ==
    IF node.t = "object"
    THEN LET v1 == Downgrade(node.m)
             v2 == TransformNullableAnyOf(v1, "anyOf").obj
             v3 == TransformNullableAnyOf(v2, "oneOf").obj
             v4 == TransformNullableTypeArray(v3).obj
         IN  JObject([k \in DOMAIN v4 |-> Fix(v4[k])])
    ELSE IF node.t = "array"
    THEN JArray([i \in DOMAIN node.a |-> Fix(node.a[i])])
    ELSE node

\* The documents.  A document is a wrapper around one schema object; the
\* schema object has outer keys and either a two-element anyOf/oneOf of a
\* null schema and a non-null schema, or a two-element type list, or an
\* anyOf/oneOf of two non-null schemas.
NullSchema == "type" :> JString("null")

\* The outer keys besides the rewritten one.
Outers == {"none", "description", "described"}
Outer(o) ==
    IF o = "description"
    THEN "description" :> JString("a nullable string")
    ELSE IF o = "described"
    THEN ("description" :> JString("outer")) @@ ("title" :> JString("Example"))
    ELSE <<>>

\* The non-null schemas: the two of the tests, one that has a description of
\* its own, one that is itself a nullable anyOf, and one with a property
\* whose type is a list.
NonNulls == {"string", "integer", "described", "nested", "object"}
NonNull(n) ==
    IF n = "string"
    THEN ("type" :> JString("string")) @@ ("minLength" :> JNumber(1))
    ELSE IF n = "integer"
    THEN "type" :> JString("integer")
    ELSE IF n = "described"
    THEN ("type" :> JString("string")) @@ ("description" :> JString("inner"))
    ELSE IF n = "nested"
    THEN "anyOf" :> JArray(<<JObject(NullSchema),
                             JObject("type" :> JString("string"))>>)
    ELSE ("type" :> JString("object"))
         @@ ("properties" :> JObject("name" :> JObject(
                "type" :> JArray(<<JString("string"), JString("null")>>))))

Pair(a, b, first) == IF first THEN <<a, b>> ELSE <<b, a>>

Kinds == {"nullable", "typeArray", "union"}
TypeNames == {"string", "integer"}
Wrappers == {"root", "schemas", "items", "allOf"}

\* What describes a document.
Cases ==
    {c \in [kind : Kinds, outer : Outers, key : {"anyOf", "oneOf"},
            nullFirst : BOOLEAN, nonNull : NonNulls, name : TypeNames,
            wrap : Wrappers] :
        /\ c.kind = "nullable" => c.name = "string"
        /\ c.kind = "typeArray" =>
              c.key = "anyOf" /\ c.nonNull = "string"
        /\ c.kind = "union" =>
              c.nullFirst /\ c.nonNull = "string" /\ c.name = "string"}

\* The schema object of a case.
Schema(c) ==
    IF c.kind = "nullable"
    THEN Outer(c.outer)
         @@ (c.key :> JArray(Pair(JObject(NullSchema),
                                  JObject(NonNull(c.nonNull)), c.nullFirst)))
    ELSE IF c.kind = "typeArray"
    THEN Outer(c.outer)
         @@ ("type" :> JArray(Pair(JString("null"), JString(c.name),
                                   c.nullFirst)))
    ELSE Outer(c.outer)
         @@ (c.key :> JArray(<<JObject(NonNull("string")),
                               JObject(NonNull("integer"))>>))

\* The document of a case: the schema object itself, the schema object under
\* components.schemas.Example of a 3.1 document, under items of an array
\* schema, or in an allOf list.
Document(c) ==
    LET s == JObject(Schema(c)) IN
    IF c.wrap = "root" THEN s
    ELSE IF c.wrap = "schemas"
    THEN JObject(("openapi" :> JString("3.1.0"))
                 @@ ("components" :> JObject(
                        "schemas" :> JObject("Example" :> s))))
    ELSE IF c.wrap = "items"
    THEN JObject(("type" :> JString("array")) @@ ("items" :> s))
    ELSE JObject("allOf" :> JArray(<<s>>))

\* main: os.ReadFile(*inPath) and json.Unmarshal(b, &doc)
ReadDoc(c) ==
    /\ fx.pc = "idle"
    /\ fx' = [pc |-> "read", case |-> c, doc |-> Document(c)]
    /\ UNCHANGED <<streaming, cfg, do, up, frame, ret, obs>>

\* main: fix(doc), which rewrites doc in place
RunFix ==
    /\ fx.pc = "read"
    /\ fx' = [fx EXCEPT !.pc = "fixed", !.doc = Fix(fx.doc)]
    /\ UNCHANGED <<streaming, cfg, do, up, frame, ret, obs>>

\* main: json.MarshalIndent(doc, "", "  ") and os.WriteFile(*outPath, ...)
WriteOut ==
    /\ fx.pc = "fixed"
    /\ fx' = [fx EXCEPT !.pc = "written"]
    /\ UNCHANGED <<streaming, cfg, do, up, frame, ret, obs>>

FixNext ==
    \/ \E c \in Cases : ReadDoc(c)
    \/ RunFix
    \/ WriteOut

FixSpec == StreamInit /\ [][FixNext]_vars

\* ---------------------------------------------------------------- claims

Returned == pc = "returned"
\* A response with a 2xx status was obtained: the read loop ran.
Streamed == statusCode \in 200..299
\* The last ReadString failed otherwise than by io.EOF.
ReadBroke == rerr \notin {NoErr, EOF}

\* C1 (completion precedence): when a decodable init record was followed by
\* a decodable done record, the call returns the state of the done record
\* with a nil error; a call that returns from the loop without a read error
\* returns the state of a done record, never that of an init record.
C1_CompletionPrecedence ==
    /\ (Returned /\ initSeen # Nil /\ doneSeen # Nil)
          => (result = doneSeen /\ err = NoErr)
    /\ (Returned /\ Streamed /\ rerr = NoErr)
          => (doneSeen # Nil /\ result = doneSeen /\ err = NoErr)

C1_Witness ==
    /\ Returned /\ rerr = NoErr
    /\ initSeen = "run_1:processing"
    /\ doneSeen = "run_1:completed"
    /\ result = "run_1:completed" /\ err = NoErr

C3_ErrorWhenStreamEndsEarly ==
    /\ (Returned /\ Streamed /\ rerr = EOF /\ doneSeen = Nil) => err # NoErr
    /\ (Returned /\ Streamed /\ err = NoErr) => doneSeen # Nil

\* C4 (empty-stream failure): a 2xx stream that ends with no init or done
\* record ever decoded gives a nil result and the stream-ended error, and
\* that error is returned in no other situation.
C4_StreamEndedError ==
    Returned =>
        /\ (err = StreamEndedErr) <=>
              (Streamed /\ rerr = EOF /\ initSeen = Nil /\ doneSeen = Nil)
        /\ (err = StreamEndedErr) => result = Nil

C4_Witness ==
    /\ Returned /\ Streamed /\ rerr = EOF
    /\ initSeen = Nil /\ doneSeen = Nil
    /\ err = StreamEndedErr /\ result = Nil

\* C5 (decode leniency): an init record whose data is not JSON leaves the
\* last-known state as it was, and a decodable done record after it makes
\* the call return the done state with a nil error.
C5_DecodeLeniency ==
    /\ (pc = "streaming" /\ badInit) => lastSeen = initSeen
    /\ (Returned /\ badInit /\ doneSeen # Nil)
          => (result = doneSeen /\ err = NoErr)

C5_Witness ==
    /\ Returned /\ badInit /\ initSeen = Nil
    /\ doneSeen = "run_1:completed" /\ result = "run_1:completed"
    /\ err = NoErr

\* C6 (timeout): when a decodable init record was received and a deadline
\* passes while the loop is blocked in a read, the call returns a nil result
\* and that deadline-exceeded error, not the init state and not the
\* stream-ended error, and the response body is closed.
C6_Timeout ==
    (Returned /\ Streamed /\ IsDeadlineExceeded(rerr) /\ initSeen # Nil)
        => /\ result = Nil
           /\ err = rerr
           /\ err # StreamEndedErr
           /\ body = "closed"

C6_Witness ==
    /\ Returned /\ Streamed /\ rerr = CtxDeadlineErr
    /\ callerCtx.ok /\ callerCtx.at = start + ShortTimeout /\ now >= callerCtx.at
    /\ initSeen = "run_1:processing" /\ doneSeen = Nil
    /\ result = Nil /\ err = CtxDeadlineErr /\ body = "closed"

\* C7 as stated (section 4.2): when the stream ends by a read error before a
\* done record and a last-known state was captured, the call returns that
\* state without error.
C7_BestEffortOnReadError ==
    (Returned /\ Streamed /\ ReadBroke /\ initSeen # Nil /\ doneSeen = Nil)
        => (result = initSeen /\ err = NoErr)

\* C7 as amended: when the stream ends by a read error (not a clean EOF), the
\* call returns a nil result and that error, also when a last-known state
\* was captured.
C7_ReadErrorPropagates ==
    (Returned /\ Streamed /\ ReadBroke) => (result = Nil /\ err = rerr)

C7_Witness ==
    /\ Returned /\ Streamed /\ rerr = [kind |-> "net.OpError"]
    /\ initSeen = "run_1:processing" /\ lastSeen = "run_1:processing"
    /\ result = Nil /\ err = rerr

\* The deadline C8 expects to govern the call.
ExpectedDeadline ==
    IF callerCtx.ok THEN callerCtx.at ELSE start + 60

\* C8 (deadline selection): the caller's deadline governs the call when there
\* is one, else a deadline 60 units after the start of the call; the context
\* reports expiry only once that deadline has passed, and neither the
\* request nor a read of the body succeeds after it.
C8_DeadlineSelection ==
    /\ [](pc # "idle" => (deadline.ok /\ deadline.at = ExpectedDeadline))
    /\ []((Returned /\ err = CtxDeadlineErr) => now >= ExpectedDeadline)
    /\ [][((body = "none" /\ body' = "open") \/ (~buffered /\ buffered'))
            => now < ExpectedDeadline]_vars

C8_Witness ==
    /\ Returned /\ Streamed /\ ~callerCtx.ok /\ start = StartTime
    /\ err = CtxDeadlineErr /\ now = StartTime + 60

\* C9 (termination): every call returns, also when the peer never sends
\* done, never closes the stream and the caller gave no deadline.
C9_Termination == [](pc # "idle" => <>(pc = "returned"))

C9_Witness ==
    /\ Returned /\ Streamed /\ ~callerCtx.ok /\ clientTimeout = 0
    /\ doneSeen = Nil /\ rerr = CtxDeadlineErr /\ err = CtxDeadlineErr
    /\ result = Nil

\* C10 (non-2xx short-circuit): a response outside 200..299 gives a nil
\* result and a status error with the status code, POST, the request URL and
\* the trimmed body; no line of the body is parsed as an event, so a body
\* holding a done record yields no result; the read loop runs only on 2xx.
C10_Non2xxShortCircuit ==
    /\ (pc = "streaming") => statusCode \in 200..299
    /\ (Returned /\ body # "none" /\ statusCode \notin 200..299)
          => /\ result = Nil
             /\ err.kind \in {"APIStatusError", "APIValidationError"}
             /\ err.StatusCode = statusCode
             /\ err.Method = "POST"
             /\ err.URL = <<"https://seclai.com", "/api/agents/", agentID,
                            "/runs/stream">>
             /\ err.ResponseText = TrimSpace(raw)
             /\ (raw = <<SP, "not", SP, "found", LF>>
                    => err.ResponseText = <<"not", SP, "found">>)
             /\ lastSeen = Nil /\ initSeen = Nil /\ doneSeen = Nil
             /\ currentEvent = <<>> /\ dataLines = <<>>

C10_Witness ==
    /\ Returned /\ statusCode = 300 /\ body = "closed"
    /\ raw = <<"event", COLON, SP, "done", LF, "data", COLON, SP, "J2", LF, LF>>
    /\ result = Nil /\ err.kind = "APIStatusError" /\ err.StatusCode = 300
    /\ err.ResponseText = <<"event", COLON, SP, "done", LF, "data", COLON, SP, "J2">>

\* C11 (status classification): once Do has a response, it returns an
\* APIValidationError exactly when the status is 422 and a plain
\* APIStatusError exactly for the other codes outside 200..299; a 422 body
\* that is the validation payload populates ValidationError, an empty or
\* undecodable one leaves it nil; a 2xx response yields no status error.
C11_StatusClassification ==
    (do.pc = "returned" /\ do.body # "none") =>
        /\ (do.err.kind = "APIValidationError") <=> (do.statusCode = 422)
        /\ (do.err.kind = "APIStatusError") <=>
              (do.statusCode \notin 200..299 /\ do.statusCode # 422)
        /\ (do.statusCode \in 200..299) =>
              do.err.kind \notin {"APIStatusError", "APIValidationError"}
        /\ (do.statusCode = 422 /\ StripSpace(do.raw) = <<"VE">>) =>
              do.err.ValidationError # Nil
        /\ (do.statusCode = 422 /\ do.raw \in {<<>>, <<"VE", Garbage>>}) =>
              do.err.ValidationError = Nil
        /\ (do.statusCode \notin 200..299) =>
              /\ do.err.StatusCode = do.statusCode
              /\ do.err.Method = do.method

C11_Witness ==
    /\ do.pc = "returned" /\ do.statusCode = 422 /\ do.method = "GET"
    /\ do.raw = <<"VE">> /\ do.err.kind = "APIValidationError"
    /\ do.err.ValidationError # Nil

\* C12 (comment invisibility): at every point a loop holds the same event
\* type, data lines and last-known state, and has returned the same, as the
\* same loop run on the same stream with its comment lines taken out (so
\* both dispatch the same records at every boundary); and reading a comment
\* line changes neither the locals nor what was returned.
C12_CommentInvisibility ==
    /\ [](\A i \in DOMAIN ret : Actual(i) = obs[i].plain)
    /\ [][\A i \in DOMAIN ret :
            obs'[i].comments > obs[i].comments
                => (frame' = frame /\ ret' = ret)]_vars

C12_Witness ==
    /\ 1 \in DOMAIN ret
    /\ ret[1].pc = "returned" /\ ret[1].rerr = NoErr
    /\ obs[1].comments = MaxComments /\ obs[1].vals = <<<<"J2">>>>
    /\ obs[1].good = "run_1:completed"
    /\ ret[1].result = "run_1:completed" /\ ret[1].err = NoErr

\* C13 (record boundary): the data lines a loop has accumulated are the
\* values of the data lines sent since the last boundary, in the order sent;
\* the data of the record a boundary dispatches is these values joined by
\* newlines less one newline at the end; and a call completed by a done
\* record returns the decoding of exactly that payload.
C13_RecordBoundary ==
    \A i \in DOMAIN ret :
        /\ ret[i].pc = "reading" =>
              /\ frame[Frame(i)].dataLines = obs[i].vals
              /\ RecordData(frame[Frame(i)].dataLines)
                    = ExpectedPayload(obs[i].vals)
        /\ (ret[i].pc = "returned" /\ ret[i].rerr = NoErr) =>
              /\ Decodable(ExpectedPayload(obs[i].vals))
              /\ ret[i].result = Unmarshal(ExpectedPayload(obs[i].vals)).parsed

C13_Witness ==
    /\ 1 \in DOMAIN ret
    /\ ret[1].pc = "returned" /\ ret[1].rerr = NoErr
    /\ obs[1].vals = <<<<"J2">>, <<>>, <<>>>>
    /\ ExpectedPayload(obs[1].vals) = <<"J2", LF>>
    /\ ret[1].result = "run_1:completed"

\* C14 (resource release): a call that has returned holds no open body: the
\* body of every response obtained is closed, whatever the path of return.
C14_ResourceRelease ==
    Returned =>
        /\ body # "open"
        /\ statusCode # 0 => body = "closed"
        /\ statusCode = 0 => body = "none"

C14_Witness ==
    /\ Returned /\ Streamed /\ body = "closed"
    /\ rerr = [kind |-> "context.Canceled"] /\ err = rerr

\* C15 (no retries): one invocation gives c.httpClient.Do one request at
\* most; once a response was obtained the call never goes back to
\* connecting and never opens a second body, and once it has returned it
\* stays returned.
C15_NoRetries ==
    /\ [](requests <= 1)
    /\ [][pc' = "connecting" => pc \in {"idle", "connecting"}]_vars
    /\ [][body' = "open" => body \in {"none", "open"}]_vars
    /\ [][pc = "returned" => pc' = "returned"]_vars

C15_Witness ==
    /\ Returned /\ requests = 1 /\ body = "closed"
    /\ rerr = [kind |-> "net.OpError"] /\ lastSeen # Nil /\ result = Nil

\* C16 (isolation): with two loops of one client reading side by side in
\* any interleaving, each holds the locals, and returns the result and the
\* error, of the same loop run alone on its own stream.
C16_Isolation ==
    \A i \in DOMAIN ret : Actual(i) = obs[i].alone

C16_Witness ==
    /\ DOMAIN ret = Calls
    /\ ret[1].pc = "returned" /\ ret[1].result = "run_1:processing"
    /\ ret[1].rerr = EOF
    /\ ret[2].pc = "returned" /\ ret[2].result = "run_1:completed"
    /\ ret[2].rerr = NoErr

\* C17 (transport error propagation): when c.httpClient.Do or a read fails
\* with a transport error that is no deadline expiry, the call returns a nil
\* result and that very error: no timeout error, no stream-ended error.
C17_TransportErrorPropagates ==
    /\ (Returned /\ derr \in TransportErrors) =>
          (result = Nil /\ err = derr /\ body = "none")
    /\ (Returned /\ rerr \in TransportErrors) =>
          (result = Nil /\ err = rerr)
    /\ (Returned /\ (derr \in TransportErrors \/ rerr \in TransportErrors)) =>
          (~IsDeadlineExceeded(err) /\ err # StreamEndedErr)

C17_Witness ==
    /\ Returned /\ derr = [kind |-> "net.OpError"] /\ statusCode = 0
    /\ result = Nil /\ err = [kind |-> "net.OpError"]

\* A text that is empty once trimmed.
IsBlank(t) == \A k \in 1..Len(t) : t[k] \in WhiteSpace

\* C18 (client configuration): NewClient returns a ConfigurationError and no
\* client exactly when Options.APIKey and SECLAI_API_KEY are both blank or
\* the base URL chosen does not parse; otherwise it returns a client and no
\* error, whose key is Options.APIKey when that is not blank and the
\* environment's key else, whose base URL is Options.BaseURL, else
\* SECLAI_API_URL, else DefaultBaseURL, and whose header name is
\* Options.APIKeyHeader, x-api-key when that is blank; all of them trimmed.
C18_ClientConfiguration ==
    cfg.pc = "returned" =>
        LET o == cfg.opts
            e == cfg.env
            noKey == IsBlank(o.APIKey) /\ IsBlank(e.SECLAI_API_KEY)
            base == IF ~IsBlank(o.BaseURL) THEN TrimSpace(o.BaseURL)
                    ELSE IF ~IsBlank(e.SECLAI_API_URL)
                    THEN TrimSpace(e.SECLAI_API_URL)
                    ELSE <<"https://seclai.com">>
            failed == cfg.err # NoErr
        IN  /\ failed <=> (noKey \/ base = <<"://bad">>)
            /\ failed <=> cfg.client = [isNil |-> TRUE]
            /\ failed => cfg.err.kind = "ConfigurationError"
            /\ ~failed =>
                  /\ cfg.client.apiKey =
                        IF ~IsBlank(o.APIKey) THEN TrimSpace(o.APIKey)
                        ELSE TrimSpace(e.SECLAI_API_KEY)
                  /\ cfg.client.baseURL = base
                  /\ cfg.client.apiKeyHeader =
                        IF IsBlank(o.APIKeyHeader) THEN <<"x-api-key">>
                        ELSE TrimSpace(o.APIKeyHeader)

C18_Witness ==
    /\ cfg.pc = "returned" /\ cfg.err = NoErr
    /\ cfg.opts.APIKey = <<"k1">> /\ cfg.env.SECLAI_API_KEY = <<SP, "k2", LF>>
    /\ cfg.opts.BaseURL = <<SP>>
    /\ cfg.env.SECLAI_API_URL = <<SP, "https://env.test", LF>>
    /\ cfg.opts.APIKeyHeader = <<>>
    /\ cfg.client.apiKey = <<"k1">>
    /\ cfg.client.baseURL = <<"https://env.test">>
    /\ cfg.client.apiKeyHeader = <<"x-api-key">>

\* C19 (event type filter): the last-known state is always the state of the
\* latest init or done record with decodable data, whatever records of other
\* event types (the empty one included) went by; a call returns from the
\* loop without a read error only on a done record; and it never returns a
\* state other than the last-known one.
C19_EventTypeFilter ==
    \A i \in DOMAIN ret :
        /\ frame[Frame(i)].lastSeen = obs[i].good
        /\ (ret[i].pc = "returned" /\ ret[i].rerr = NoErr) =>
              obs[i].ev = <<"done">>
        /\ ret[i].result \in {Nil, obs[i].good}

C19_Witness ==
    /\ 1 \in DOMAIN ret
    /\ obs[1].other /\ obs[1].good = Nil
    /\ ret[1].pc = "returned" /\ ret[1].rerr = EOF
    /\ ret[1].result = Nil /\ ret[1].err = StreamEndedErr

EffectiveDeadline ==
    IF ExpectedDeadline < start + 30 THEN ExpectedDeadline ELSE start + 30

C27_DoneEndsLoop ==
    /\ [](doneSeen # Nil => (Returned /\ result = doneSeen /\ err = NoErr))
    /\ [][doneSeen = Nil /\ doneSeen' # Nil
            => (pc = "streaming" /\ pc' = "returned" /\ body' = "closed")]_vars
    /\ [][Returned => UNCHANGED <<result, err, rerr, buffered, locals,
                                  observed, body, now>>]_vars

C27_Witness ==
    /\ Returned /\ Streamed /\ rerr = NoErr /\ buffered
    /\ clientTimeout = ClientDefaultTimeout /\ now < start + 30
    /\ doneSeen = "run_1:completed"
    /\ result = "run_1:completed" /\ err = NoErr

\* The run states a JSON document of the model decodes to.
RunStates == {Unmarshal(<<d>>).parsed : d \in JsonDocs}

\* C21 (last-known state): the last-known state is absent or the full decode
\* of the latest init or done record whose data decoded.  It changes only at
\* the boundary that dispatches such a record, and then to the decode of
\* that record alone, with nothing kept of the state before; a record whose
\* data does not decode, a record of another event type and a record without
\* data leave it as it was, and once present it is never absent again.
C21_LastKnownState ==
    /\ [](\A i \in DOMAIN ret :
            /\ frame[Frame(i)].lastSeen \in {Nil} \cup RunStates
            /\ frame[Frame(i)].lastSeen = obs[i].good)
    /\ [][\A i \in DOMAIN ret :
            LET before == frame[Frame(i)].lastSeen
                after == frame'[Frame(i)].lastSeen
                p == ExpectedPayload(obs[i].vals)
            IN  /\ before # Nil => after # Nil
                /\ after # before =>
                      /\ Replaces(obs[i])
                      /\ after = Unmarshal(p).parsed
                      /\ obs'[i].prev = before
                /\ ~Replaces(obs[i]) => after = before]_vars

C21_Witness ==
    /\ 1 \in DOMAIN ret
    /\ ret[1].pc = "reading" /\ obs[1].badDone
    /\ obs[1].prev = "run_1:processing"
    /\ frame[Frame(1)].lastSeen = "run_1:"

\* C22 (accumulator reset): while the loop reads, the accumulated event type
\* and data lines are those sent since the last boundary and nothing of what
\* was sent before it; when the loop has returned at a boundary the
\* accumulator is empty, whether the record was decoded, dropped or
\* ignored; and a line read with nothing accumulated that leaves nothing
\* accumulated, a blank line among them, changes neither the locals nor what
\* the call returns.
C22_AccumulatorReset ==
    /\ [](\A i \in DOMAIN ret :
            /\ ret[i].pc = "reading" =>
                  /\ frame[Frame(i)].currentEvent = obs[i].ev
                  /\ frame[Frame(i)].dataLines = obs[i].vals
            /\ (ret[i].pc = "returned" /\ ret[i].rerr \in {NoErr, EOF}) =>
                  /\ frame[Frame(i)].currentEvent = <<>>
                  /\ frame[Frame(i)].dataLines = <<>>)
    /\ [][\A i \in DOMAIN ret :
            (/\ obs[i].ev = <<>> /\ obs[i].vals = <<>>
             /\ obs'[i].ev = <<>> /\ obs'[i].vals = <<>>
             /\ ret'[i].pc = "reading")
            => (frame'[Frame(i)] = frame[Frame(i)] /\ ret'[i] = ret[i])]_vars

C22_Witness ==
    /\ 1 \in DOMAIN ret
    /\ ret[1].pc = "reading" /\ obs[1].other /\ obs[1].badDone
    /\ obs[1].good = Nil
    /\ frame[Frame(1)].currentEvent = <<"init">>
    /\ frame[Frame(1)].dataLines = <<<<"J1">>>>
    /\ frame[Frame(1)].lastSeen = Nil

C25_CutLineNotParsed ==
    \A i \in DOMAIN ret :
        (ret[i].pc = "returned" /\ obs[i].tail.text # <<>>) =>
            /\ Actual(i) = obs[i].alone
            /\ (/\ ret[i].rerr = EOF
                /\ obs[i].tail.ev = <<"done">>
                /\ obs[i].tail.vals = <<>>) =>
                  /\ ret[i].result = obs[i].good
                  /\ frame[Frame(i)].lastSeen = obs[i].good
                  /\ ret[i].err = IF obs[i].good = Nil
                                  THEN StreamEndedErr ELSE NoErr

C25_Witness ==
    /\ 1 \in DOMAIN ret
    /\ ret[1].pc = "returned" /\ ret[1].rerr = EOF
    /\ obs[1].tail = [text |-> <<"data", COLON, SP, "J2">>,
                      ev |-> <<"done">>, vals |-> <<>>]
    /\ obs[1].good = "run_1:processing"
    /\ ret[1].result = "run_1:processing" /\ ret[1].err = NoErr

\* C26 (empty-data records): while the record accumulated is an init or done
\* record with no data line, or with empty data lines only, no step changes
\* the last-known state or completes the call: the boundary that dispatches
\* the record empties the accumulator and nothing else, and the end of the
\* stream returns the last-known state, or the stream-ended error when
\* there is none.
C26_EmptyDataDropped ==
    [][\A i \in DOMAIN ret :
         (/\ ret[i].pc = "reading"
          /\ obs[i].ev \in {<<"init">>, <<"done">>}
          /\ AllEmpty(obs[i].vals))
         => LET ls == frame[Frame(i)].lastSeen IN
            /\ frame'[Frame(i)].lastSeen = ls
            /\ ret'[i].pc = "returned" =>
                  /\ ret'[i].rerr # NoErr
                  /\ ret'[i].rerr = EOF =>
                        /\ ret'[i].result = ls
                        /\ ret'[i].err = IF ls = Nil THEN StreamEndedErr
                                         ELSE NoErr
            /\ (~obs[i].empty /\ obs'[i].empty) =>
                  /\ frame'[Frame(i)].currentEvent = <<>>
                  /\ frame'[Frame(i)].dataLines = <<>>]_vars

C26_Witness ==
    /\ 1 \in DOMAIN ret
    /\ ret[1].pc = "returned" /\ ret[1].rerr = EOF /\ obs[1].empty
    /\ obs[1].tail = [text |-> <<>>, ev |-> <<"done">>,
                      vals |-> <<<<>>, <<>>>>]
    /\ obs[1].good = "run_1:processing"
    /\ ret[1].result = "run_1:processing" /\ ret[1].err = NoErr

\* C28 (line endings): on a stream whose every line ends in CR LF the loop
\* has at every moment the locals, and returns what, the loop has and
\* returns on the same lines ended by LF alone: the same records reach the
\* same boundaries (a line that is CR LF and nothing else is one), the
\* accumulator holds the values as sent, without a carriage return, and the
\* last-known state and the result are the same.
C28_CRLFReadsAsLF ==
    \A i \in DOMAIN ret :
        /\ Actual(i) = obs[i].lf
        /\ frame[Frame(i)].lastSeen = obs[i].good
        /\ ret[i].pc = "reading" =>
              /\ frame[Frame(i)].currentEvent = obs[i].ev
              /\ frame[Frame(i)].dataLines = obs[i].vals

C28_Witness ==
    /\ 1 \in DOMAIN ret
    /\ ret[1].pc = "returned" /\ ret[1].rerr = NoErr
    /\ obs[1].prev = "run_1:processing" /\ obs[1].empty
    /\ obs[1].lf.result = "run_1:completed"
    /\ ret[1].result = "run_1:completed" /\ ret[1].err = NoErr

\* C23 (field parsing): a line that is neither blank nor a comment is split
\* at its first colon into field name and value, one space after the colon
\* removed when there is one, and a line without colon is a field name with
\* an empty value.  The event field replaces the event type, the data field
\* adds a data line, any other field name leaves the accumulator as it was:
\* the accumulator holds the event value and the data values as the peer
\* wrote them, and the records dispatched from it decide the last-known
\* state and the result.
C23_FieldParsing ==
    \A i \in DOMAIN ret :
        /\ ret[i].pc = "reading" =>
              /\ frame[Frame(i)].currentEvent = obs[i].ev
              /\ frame[Frame(i)].dataLines = obs[i].vals
        /\ frame[Frame(i)].lastSeen = obs[i].good
        /\ (ret[i].pc = "returned" /\ ret[i].rerr = NoErr) =>
              (Completes(obs[i]) /\ ret[i].result = obs[i].good)

C23_Witness ==
    /\ 1 \in DOMAIN ret
    /\ ret[1].pc = "returned" /\ ret[1].rerr = NoErr
    /\ obs[1].ignored /\ obs[1].badDone /\ obs[1].other
    /\ obs[1].ev = <<"done">> /\ obs[1].vals = <<<<SP, "J2">>>>
    /\ ret[1].result = "run_1:completed" /\ ret[1].err = NoErr

\* What a returned error says of the status of the response: its kind, the
\* status code, the trimmed response text and the validation payload; none
\* when the error is not a status error.
TaxonomyOf(e) ==
    IF e.kind = "APIValidationError"
    THEN [kind |-> e.kind, StatusCode |-> e.StatusCode,
          ResponseText |-> e.ResponseText,
          ValidationError |-> e.ValidationError]
    ELSE IF e.kind = "APIStatusError"
    THEN [kind |-> e.kind, StatusCode |-> e.StatusCode,
          ResponseText |-> e.ResponseText]
    ELSE [kind |-> "none"]

\* The streaming call, the Do call and the upload have each been answered,
\* and each has read the body if it reads one.
AllAnswered ==
    /\ pc = "streaming" \/ (Returned /\ body = "closed")
    /\ do.pc = "returned" /\ do.body = "closed"
    /\ up.pc = "returned" /\ up.body = "closed"

\* C29 as stated (shared error taxonomy): answered with the same status code
\* and body, the streaming call, Do and UploadFileToSource report the same
\* error with the same fields, and no error at all for a 2xx status.
C29_SameErrorNoneFor2xx ==
    AllAnswered =>
        /\ TaxonomyOf(err) = TaxonomyOf(do.err)
        /\ TaxonomyOf(do.err) = TaxonomyOf(up.err)
        /\ Streamed => (err = NoErr /\ do.err = NoErr /\ up.err = NoErr)

\* C29 (shared error taxonomy), amended: answered with the same status code
\* and body, the streaming call, Do and UploadFileToSource classify the
\* status alike: none of them reports a status error for a 2xx status (Do
\* and UploadFileToSource may still report that the body does not decode),
\* each reports an APIValidationError for 422, with the validation payload
\* of the body when the body decodes to one and none otherwise, and an
\* APIStatusError for every other status; and each status error carries the
\* status code, the URL of its own request and the trimmed body.
C29_SharedTaxonomy ==
    AllAnswered =>
        /\ TaxonomyOf(err) = TaxonomyOf(do.err)
        /\ TaxonomyOf(do.err) = TaxonomyOf(up.err)
        /\ Streamed <=> TaxonomyOf(err).kind = "none"
        /\ statusCode = 422 <=> err.kind = "APIValidationError"
        /\ statusCode = 422 =>
              err.ValidationError =
                  IF StripSpace(raw) \in {<<"VE">>, <<"J1">>}
                  THEN DecodeValidation(raw) ELSE Nil
        /\ ~Streamed =>
              /\ err.StatusCode = statusCode
              /\ err.ResponseText = TrimSpace(raw)
              /\ err.URL = BuildURL(agentID)
              /\ do.err.URL = DoURL(do.apiPath)
              /\ up.err.URL = UploadURL(up.source)

C29_Witness ==
    /\ AllAnswered /\ statusCode = 422 /\ raw = <<SP, "VE", LF>>
    /\ do.method = "GET"
    /\ err.kind = "APIValidationError" /\ err.ResponseText = <<"VE">>
    /\ do.err.ValidationError = "detail:bad"
    /\ up.err.ValidationError = "detail:bad"
    /\ up.err.ResponseText = <<"VE">>

\* The terminal states of the wait operation, told from what happened during
\* the call and not from what the call returned.
\* Completed: a done record was decoded.
Completed == Returned /\ doneSeen # Nil

\* TimedOut: the request or a read came back because a deadline had passed.
TimedOut == Returned /\ (IsDeadlineExceeded(derr) \/ IsDeadlineExceeded(rerr))

\* Failed: the body could not be marshalled (no request was made), the
\* request failed, the status was not 2xx, or a read failed.
Failed ==
    /\ Returned
    /\ \/ requests = 0
       \/ derr \in TransportErrors
       \/ body # "none" /\ ~Streamed
       \/ rerr \in TransportErrors

\* EndedWithoutCompletion: the stream ended cleanly and no done record was
\* decoded.
EndedWithoutCompletion == Returned /\ rerr = EOF /\ doneSeen = Nil

TerminalStates ==
    {s \in {"Completed", "TimedOut", "Failed", "EndedWithoutCompletion"} :
        \/ s = "Completed" /\ Completed
        \/ s = "TimedOut" /\ TimedOut
        \/ s = "Failed" /\ Failed
        \/ s = "EndedWithoutCompletion" /\ EndedWithoutCompletion}

\* C31: every return yields either a non-nil state and a nil error or a nil
\* state and a non-nil error, never both and never neither; the call ends in
\* exactly one of Completed (the done record's state, nil error), TimedOut
\* (nil state, the deadline error), Failed (nil state, the marshal, transport
\* or status error) and EndedWithoutCompletion (the last state seen and a nil
\* error, or nil and the stream-ended error); and a non-nil state is returned
\* only when an init or a done record was decoded during the call.
C31_ExclusiveOutcome ==
    Returned =>
        /\ (result # Nil) # (err # NoErr)
        /\ Cardinality(TerminalStates) = 1
        /\ Completed => result = doneSeen /\ err = NoErr
        /\ TimedOut => result = Nil /\ IsDeadlineExceeded(err)
        /\ Failed =>
              /\ result = Nil
              /\ err \notin {NoErr, StreamEndedErr}
              /\ ~IsDeadlineExceeded(err)
        /\ EndedWithoutCompletion =>
              \/ result # Nil /\ err = NoErr
              \/ result = Nil /\ err = StreamEndedErr
        /\ result # Nil => initSeen # Nil \/ doneSeen # Nil

\* A stream that delivered a decodable init record and then failed with a
\* transport error: Failed, nil state, the error.
C31_Witness ==
    /\ Returned
    /\ Failed
    /\ initSeen = "run_1:processing"
    /\ lastSeen = "run_1:processing"
    /\ rerr \in TransportErrors
    /\ result = Nil
    /\ err = rerr

\* The specfix run has applied fix to its document.
Fixed == fx.pc \in {"fixed", "written"}

\* The schema object of the document, found where the wrapper put it.
SchemaOf(c, doc) ==
    IF c.wrap = "root" THEN doc.m
    ELSE IF c.wrap = "schemas"
    THEN doc.m["components"].m["schemas"].m["Example"].m
    ELSE IF c.wrap = "items" THEN doc.m["items"].m
    ELSE doc.m["allOf"].a[1].m

IsNullable(obj) ==
    "nullable" \in DOMAIN obj /\ obj["nullable"] = JBool(TRUE)

\* C32: after fix(doc), an object whose anyOf or oneOf was a two-element list
\* of a null schema and a non-null object schema does not have that key, has
\* every key of the non-null schema and has nullable: true; an object whose
\* type was a two-element list of a type name and "null" has that name as
\* its type and nullable: true; and so at every depth: under
\* components.schemas, under items, in a list, and in a property of the
\* non-null schema.
C32_NullableNormalised ==
    Fixed =>
        LET c == fx.case
            s == SchemaOf(c, fx.doc)
        IN  /\ c.kind = "nullable" =>
                  /\ c.key \notin DOMAIN s
                  /\ DOMAIN NonNull(c.nonNull) \subseteq DOMAIN s
                  /\ IsNullable(s)
            /\ c.kind = "typeArray" =>
                  /\ s["type"] = JString(c.name)
                  /\ IsNullable(s)
            /\ (c.kind = "nullable" /\ c.nonNull = "object") =>
                  LET p == s["properties"].m["name"].m
                  IN  p["type"] = JString("string") /\ IsNullable(p)

\* C33: when transformNullableAnyOf has rewritten a schema object, every
\* outer key other than the rewritten anyOf/oneOf key is still there with
\* its original value.
C33_OuterKeysPreserved ==
    (Fixed /\ fx.case.kind = "nullable") =>
        LET s == SchemaOf(fx.case, fx.doc)
            outer == Outer(fx.case.outer)
        IN  \A k \in DOMAIN outer : k \in DOMAIN s /\ s[k] = outer[k]

=============================================================================
